---- MODULE Spec2Model ----
(***************************************************************************)
(* Model of t8code's typed data handler (src/t8_data/t8_data_handler.hxx): *)
(* the count-prefixed wire format of a collection, the polymorphic and the *)
(* static-inheritance handler variants, and send/recv over a point-to-point*)
(* transport with blocking send, probe and receive.                        *)
(***************************************************************************)
EXTENDS Integers, Sequences, FiniteSets, TLC

\* ------------------------------------------------------------------ bounds
\* Longest collection of the pack/unpack specification.
MaxLen == 3
\* Largest number of ranks of the ring exchange.
MaxP == 2
\* Number of rounds of the ring exchange (the test runs 1..99).
MaxRounds == 3

\* ------------------------------------------------------------------ values
\* std::shared_ptr<std::vector<T>> m_data: nullptr, or owning a vector.
NULL == [owns |-> FALSE, vec |-> << >>]

\* std::make_shared<std::vector<T>> (v)
Owned(v) == [owns |-> TRUE, vec |-> v]

\* The element type of the test: enlarged_data<int> = { int data; int check; }.
Elems ==
  { [data |-> -1, check |-> 42], [data |-> 258, check |-> (-2147483647 - 1)] }

\* A value-initialised element, as std::vector::resize and vector(n) create it.
DefaultElem == [data |-> 0, check |-> 0]

\* What an unpacking handler may hold before the call: no vector, or a
\* vector of 0..n elements that are not on the wire.
PriorContents(n) ==
  { [owns |-> FALSE, vec |-> << >>] }
    \cup { [owns |-> TRUE, vec |-> [i \in 1..k |-> [data |-> 7, check |-> -7]]] :
            k \in 0..n }

\* All collections of at most n elements.
Collections(n) == UNION { [1..k -> Elems] : k \in 0..n }

\* ------------------------------------------------------- transport packing
\* sc_MPI_Pack_size (1, sc_MPI_INT, comm, &size): bytes of one packed int.
IntPackSize == 4

\* The four bytes of a 32-bit two's complement int, least significant first.
EncodeInt(x) ==
  LET y == IF x >= 0 THEN x ELSE (x + 2147483647) + 1
  IN  << y % 256, (y \div 256) % 256, (y \div 65536) % 256,
         (y \div 16777216) + (IF x < 0 THEN 128 ELSE 0) >>

\* The 32-bit signed int held by four bytes.
DecodeInt(b) ==
  LET y == b[1] + 256 * b[2] + 65536 * b[3] + 16777216 * (b[4] % 128)
  IN  IF b[4] >= 128 THEN (y - 2147483647) - 1 ELSE y

\* sc_MPI_Pack (&x, 1, sc_MPI_INT, buffer, num_bytes, &pos, comm)
sc_MPI_Pack(x, buffer, num_bytes, pos) ==
  IF pos + IntPackSize > num_bytes \/ num_bytes > Len(buffer)
  THEN [ret |-> "sc_MPI_ERR_NO_SPACE", buffer |-> buffer, pos |-> pos]
  ELSE [ret |-> "sc_MPI_SUCCESS",
        buffer |-> [i \in 1..Len(buffer) |->
                      IF i > pos /\ i <= pos + IntPackSize
                      THEN EncodeInt(x)[i - pos] ELSE buffer[i]],
        pos |-> pos + IntPackSize]

\* sc_MPI_Unpack (buffer, num_bytes, &pos, &x, 1, sc_MPI_INT, comm); x0 is the
\* value the output variable held before the call.
sc_MPI_Unpack(buffer, num_bytes, pos, x0) ==
  IF pos + IntPackSize > num_bytes \/ num_bytes > Len(buffer)
  THEN [ret |-> "sc_MPI_ERR_TRUNCATE", val |-> x0, pos |-> pos]
  ELSE [ret |-> "sc_MPI_SUCCESS",
        val |-> DecodeInt([i \in 1..IntPackSize |-> buffer[pos + i]]),
        pos |-> pos + IntPackSize]

\* ----------------------------------------------------------- element codec
\* The element types the handlers are instantiated for: T = enlarged_data<int>
\* and T = enlarged_data<double> (a data member of the named type and an int
\* check). A double is modelled by an integral value.
Types == {"int", "double"}

\* sc_MPI_Pack_size (1, sc_MPI_DOUBLE, comm, &size): bytes of one packed double.
DoublePackSize == 8

\* The eight bytes of a packed double: those of the 64-bit two's complement
\* of its integral value, least significant first.
EncodeDouble(x) ==
  LET ext == IF x < 0 THEN 255 ELSE 0
  IN  EncodeInt(x) \o << ext, ext, ext, ext >>

\* The value held by the eight bytes of a packed double.
DecodeDouble(b) == DecodeInt([i \in 1..IntPackSize |-> b[i]])

\* sc_MPI_Pack (&x, 1, sc_MPI_DOUBLE, buffer, num_bytes, &pos, comm)
sc_MPI_Pack_double(x, buffer, num_bytes, pos) ==
  IF pos + DoublePackSize > num_bytes \/ num_bytes > Len(buffer)
  THEN [ret |-> "sc_MPI_ERR_NO_SPACE", buffer |-> buffer, pos |-> pos]
  ELSE [ret |-> "sc_MPI_SUCCESS",
        buffer |-> [i \in 1..Len(buffer) |->
                      IF i > pos /\ i <= pos + DoublePackSize
                      THEN EncodeDouble(x)[i - pos] ELSE buffer[i]],
        pos |-> pos + DoublePackSize]

\* sc_MPI_Unpack (buffer, num_bytes, &pos, &x, 1, sc_MPI_DOUBLE, comm)
sc_MPI_Unpack_double(buffer, num_bytes, pos, x0) ==
  IF pos + DoublePackSize > num_bytes \/ num_bytes > Len(buffer)
  THEN [ret |-> "sc_MPI_ERR_TRUNCATE", val |-> x0, pos |-> pos]
  ELSE [ret |-> "sc_MPI_SUCCESS",
        val |-> DecodeDouble([i \in 1..DoublePackSize |-> buffer[pos + i]]),
        pos |-> pos + DoublePackSize]

\* t8_single_data_handler<T>::type: the tag of the element type.
single_type(T) == IF T = "int" THEN 0 ELSE 1

\* t8_single_data_handler<T>::size: the packed size of the data member plus
\* that of the check, the same for every value.
single_size(T, item) ==
  (IF T = "int" THEN IntPackSize ELSE DoublePackSize) + IntPackSize

\* pack writing the check before the data.
single_pack_check_first(T, item, pos, buffer, num_bytes) ==
  LET r1 == sc_MPI_Pack(item.check, buffer, num_bytes, pos)
      r2 == IF T = "int" THEN sc_MPI_Pack(item.data, r1.buffer, num_bytes, r1.pos)
            ELSE sc_MPI_Pack_double(item.data, r1.buffer, num_bytes, r1.pos)
  IN  IF r1.ret # "sc_MPI_SUCCESS"
      THEN [exit |-> "abort_mpi", buffer |-> r1.buffer, pos |-> r1.pos]
      ELSE IF r2.ret # "sc_MPI_SUCCESS"
      THEN [exit |-> "abort_mpi", buffer |-> r2.buffer, pos |-> r2.pos]
      ELSE [exit |-> "ok", buffer |-> r2.buffer, pos |-> r2.pos]

\* t8_single_data_handler<T>::pack: data, then check, each with SC_CHECK_MPI.
single_pack(T, item, pos, buffer, num_bytes) ==
  LET r1 == IF T = "int" THEN sc_MPI_Pack(item.data, buffer, num_bytes, pos)
            ELSE sc_MPI_Pack_double(item.data, buffer, num_bytes, pos)
      r2 == sc_MPI_Pack(item.check, r1.buffer, num_bytes, r1.pos)
  IN  IF r1.ret # "sc_MPI_SUCCESS"
      THEN [exit |-> "abort_mpi", buffer |-> r1.buffer, pos |-> r1.pos]
      ELSE IF r2.ret # "sc_MPI_SUCCESS"
      THEN [exit |-> "abort_mpi", buffer |-> r2.buffer, pos |-> r2.pos]
      ELSE [exit |-> "ok", buffer |-> r2.buffer, pos |-> r2.pos]

\* t8_single_data_handler<T>::unpack: the inverse of pack.
single_unpack(T, buffer, num_bytes, pos, item) ==
  LET r1 == IF T = "int" THEN sc_MPI_Unpack(buffer, num_bytes, pos, item.data)
            ELSE sc_MPI_Unpack_double(buffer, num_bytes, pos, item.data)
      r2 == sc_MPI_Unpack(buffer, num_bytes, r1.pos, item.check)
  IN  IF r1.ret # "sc_MPI_SUCCESS"
      THEN [exit |-> "abort_mpi", item |-> item, pos |-> r1.pos]
      ELSE IF r2.ret # "sc_MPI_SUCCESS"
      THEN [exit |-> "abort_mpi",
            item |-> [data |-> r1.val, check |-> item.check], pos |-> r2.pos]
      ELSE [exit |-> "ok",
            item |-> [data |-> r1.val, check |-> r2.val], pos |-> r2.pos]

\* ------------------------------------------------ polymorphic handler: sizes
RECURSIVE SumSizes(_, _, _, _)
\* The loop of buffer_size: total_size += single_handler.size (item, comm).
SumSizes(T, items, i, total_size) ==
  IF i > Len(items) THEN total_size
  ELSE SumSizes(T, items, i + 1, total_size + single_size(T, items[i]))

\* buffer_size with total_size left at 0: the count prefix is forgotten.
buffer_size_no_prefix(T, m_data) ==
  IF ~m_data.owns THEN 0 ELSE SumSizes(T, m_data.vec, 1, 0)

\* t8_data_handler<T>::buffer_size
buffer_size(T, m_data) ==
  IF ~m_data.owns THEN IntPackSize ELSE SumSizes(T, m_data.vec, 1, IntPackSize)

\* t8_data_handler<T>::t8_buffer_size (static-inheritance variant)
t8_buffer_size(T, num_data) ==
  LET single == single_size(T, DefaultElem)
  IN  IntPackSize + num_data * single

\* ----------------------------------------------------------- build options
\* T8_ASSERT (cond): aborts in a debug build (T8_ENABLE_DEBUG), expands to
\* nothing otherwise.
T8_ASSERT_fails(debug_build, cond) == debug_build /\ ~cond

\* size_t (n) > vector::max_size () for an int n: a negative int converts to
\* a value of at least 2^64 - 2^31, above every max_size.
ExceedsMaxSize(n) == n < 0

\* std::vector<T>::resize (n) for 0 <= n <= max_size: keeps the first n
\* elements and appends value-initialised ones.
Resize(v, n) ==
  [i \in 1..n |-> IF i <= Len(v) THEN v[i] ELSE DefaultElem]

\* --------------------------------------- polymorphic handler: pack / unpack
RECURSIVE PackItems_reversed(_, _, _, _, _)
\* The pack loop visiting the items from the last to the first.
PackItems_reversed(T, items, i, num_bytes, st) ==
  IF i > Len(items) \/ st.exit # "ok" THEN st
  ELSE PackItems_reversed(T, items, i + 1, num_bytes,
         single_pack(T, items[Len(items) + 1 - i], st.pos, st.buffer,
                     num_bytes))

RECURSIVE PackItems(_, _, _, _, _)
\* for (const auto &item : *m_data) single_handler.pack (item, pos, ...)
PackItems(T, items, i, num_bytes, st) ==
  IF i > Len(items) \/ st.exit # "ok" THEN st
  ELSE PackItems(T, items, i + 1, num_bytes,
                 single_pack(T, items[i], st.pos, st.buffer, num_bytes))

\* pack_vector_prefix with the cursor not advanced past the count: the first
\* element overwrites the count prefix.
pack_vector_prefix_pos_by_value(T, m_data, buffer, num_bytes, pos) ==
  LET num_data == Len(m_data.vec)
      r == sc_MPI_Pack(num_data, buffer, num_bytes, pos)
  IN  IF r.ret # "sc_MPI_SUCCESS"
      THEN [exit |-> "abort_mpi", buffer |-> r.buffer, pos |-> r.pos]
      ELSE PackItems(T, m_data.vec, 1, num_bytes,
                     [exit |-> "ok", buffer |-> r.buffer, pos |-> pos])

\* t8_data_handler<T>::pack_vector_prefix on a handler that owns a vector
\* (m_data # nullptr).
pack_vector_prefix(T, m_data, buffer, num_bytes, pos) ==
  LET num_data == Len(m_data.vec)
      r == sc_MPI_Pack(num_data, buffer, num_bytes, pos)
  IN  IF r.ret # "sc_MPI_SUCCESS"
      THEN [exit |-> "abort_mpi", buffer |-> r.buffer, pos |-> r.pos]
      ELSE PackItems(T, m_data.vec, 1, num_bytes,
                     [exit |-> "ok", buffer |-> r.buffer, pos |-> r.pos])

RECURSIVE UnpackItems_pos_by_value(_, _, _, _, _)
\* The unpack loop with pos handed to the element codec by value: every
\* element is read at the position that follows the count.
UnpackItems_pos_by_value(T, buffer, num_bytes, i, st) ==
  IF i > Len(st.m_data.vec) \/ st.exit # "ok" THEN st
  ELSE LET u == single_unpack(T, buffer, num_bytes, st.pos, st.m_data.vec[i])
       IN  UnpackItems_pos_by_value(T, buffer, num_bytes, i + 1,
             [st EXCEPT !.exit = u.exit, !.m_data.vec[i] = u.item])

RECURSIVE UnpackItems_stop_at_end(_, _, _, _, _)
\* The unpack loop ending without an error where the buffer ends, the
\* remaining items left as the resize made them.
UnpackItems_stop_at_end(T, buffer, num_bytes, i, st) ==
  IF i > Len(st.m_data.vec) \/ st.exit # "ok"
       \/ st.pos + single_size(T, st.m_data.vec[i]) > num_bytes
  THEN st
  ELSE LET u == single_unpack(T, buffer, num_bytes, st.pos, st.m_data.vec[i])
       IN  UnpackItems_stop_at_end(T, buffer, num_bytes, i + 1,
             [st EXCEPT !.exit = u.exit, !.pos = u.pos,
                        !.m_data.vec[i] = u.item])


RECURSIVE UnpackItems(_, _, _, _, _)
\* for (auto &item : *m_data) single_handler.unpack (buffer, num_bytes, pos,
\* item, comm)
UnpackItems(T, buffer, num_bytes, i, st) ==
  IF i > Len(st.m_data.vec) \/ st.exit # "ok" THEN st
  ELSE LET u == single_unpack(T, buffer, num_bytes, st.pos, st.m_data.vec[i])
       IN  UnpackItems(T, buffer, num_bytes, i + 1,
             [st EXCEPT !.exit = u.exit, !.pos = u.pos,
                        !.m_data.vec[i] = u.item])

\* ResizeOwned without the resize of a vector the handler already owns.
ResizeOwned_no_resize(m_data, outcount) ==
  IF ~m_data.owns THEN Owned(Resize(<< >>, outcount)) ELSE m_data

\* The vector the handler owns once the count has been read: make_shared
\* <std::vector<T>> (outcount) without data, m_data->resize (outcount) with.
ResizeOwned(m_data, outcount) ==
  IF ~m_data.owns THEN Owned(Resize(<< >>, outcount))
  ELSE Owned(Resize(m_data.vec, outcount))

\* unpack_vector_prefix with a cursor of its own that starts at 0, the
\* caller's cursor being set to where it ends.
unpack_vector_prefix_own_cursor(T, m_data, buffer, num_bytes, pos, outcount0, debug_build) ==
  LET r == sc_MPI_Unpack(buffer, num_bytes, 0, outcount0)
      outcount == r.val
      st == [exit |-> "ok", m_data |-> m_data, pos |-> r.pos,
             outcount |-> outcount]
  IN  IF r.ret # "sc_MPI_SUCCESS" THEN [st EXCEPT !.exit = "abort_mpi"]
      ELSE IF T8_ASSERT_fails(debug_build, outcount >= 0)
      THEN [st EXCEPT !.exit = "abort_assert"]
      ELSE IF ExceedsMaxSize(outcount)
      THEN [st EXCEPT !.exit = "length_error"]
      ELSE UnpackItems(T, buffer, num_bytes, 1,
             [st EXCEPT !.m_data = ResizeOwned(m_data, outcount)])

\* unpack_vector_prefix discarding what the handler owns before the count is
\* checked.
unpack_vector_prefix_clear_first(T, m_data, buffer, num_bytes, pos, outcount0, debug_build) ==
  LET r == sc_MPI_Unpack(buffer, num_bytes, pos, outcount0)
      outcount == r.val
      st == [exit |-> "ok", m_data |-> Owned(<< >>), pos |-> r.pos,
             outcount |-> outcount]
  IN  IF r.ret # "sc_MPI_SUCCESS" THEN [st EXCEPT !.exit = "abort_mpi"]
      ELSE IF T8_ASSERT_fails(debug_build, outcount >= 0)
      THEN [st EXCEPT !.exit = "abort_assert"]
      ELSE IF ExceedsMaxSize(outcount)
      THEN [st EXCEPT !.exit = "length_error"]
      ELSE UnpackItems(T, buffer, num_bytes, 1,
             [st EXCEPT !.m_data = ResizeOwned(Owned(<< >>), outcount)])


\* t8_data_handler<T>::unpack_vector_prefix; outcount0 is the caller's
\* outcount before the call.
unpack_vector_prefix(T, m_data, buffer, num_bytes, pos, outcount0, debug_build) ==
  LET r == sc_MPI_Unpack(buffer, num_bytes, pos, outcount0)
      outcount == r.val
      st == [exit |-> "ok", m_data |-> m_data, pos |-> r.pos,
             outcount |-> outcount]
  IN  IF r.ret # "sc_MPI_SUCCESS" THEN [st EXCEPT !.exit = "abort_mpi"]
      ELSE IF T8_ASSERT_fails(debug_build, outcount >= 0)
      THEN [st EXCEPT !.exit = "abort_assert"]
      ELSE IF ExceedsMaxSize(outcount)
      THEN [st EXCEPT !.exit = "length_error"]
      ELSE UnpackItems(T, buffer, num_bytes, 1,
             [st EXCEPT !.m_data = ResizeOwned(m_data, outcount)])

\* ------------------------------------ static-inheritance handler variant
RECURSIVE T8PackItems_reversed(_, _, _, _, _)
\* The pack loop of the static-inheritance variant writing data[num_data - 1
\* - idata] where data[idata] belongs.
T8PackItems_reversed(T, data, num_data, idata, st) ==
  IF idata >= num_data \/ st.exit # "ok" THEN st
  ELSE IF idata + 1 > Len(data) THEN [st EXCEPT !.exit = "undefined"]
  ELSE T8PackItems_reversed(T, data, num_data, idata + 1,
         single_pack(T, data[num_data - idata], st.pos, st.buffer,
                     Len(st.buffer)))


RECURSIVE T8PackItems(_, _, _, _, _)
\* for (idata = 0; idata < num_data; idata++) t8_data_pack (data[idata], ...)
\* An index past the end of data is undefined behaviour.
T8PackItems(T, data, num_data, idata, st) ==
  IF idata >= num_data \/ st.exit # "ok" THEN st
  ELSE IF idata + 1 > Len(data) THEN [st EXCEPT !.exit = "undefined"]
  ELSE T8PackItems(T, data, num_data, idata + 1,
         single_pack(T, data[idata + 1], st.pos, st.buffer, Len(st.buffer)))

\* t8_data_handler<T>::t8_data_pack_vector: the status of the count's
\* sc_MPI_Pack is not checked.
t8_data_pack_vector(T, data, num_data, buffer, debug_build) ==
  LET r == sc_MPI_Pack(num_data, buffer, Len(buffer), 0)
  IN  IF T8_ASSERT_fails(debug_build, Len(buffer) = t8_buffer_size(T, num_data))
      THEN [exit |-> "abort_assert", buffer |-> buffer, pos |-> 0]
      ELSE T8PackItems(T, data, num_data, 0,
             [exit |-> "ok", buffer |-> r.buffer, pos |-> r.pos])

RECURSIVE T8UnpackItems(_, _, _, _)
\* for (ipack = 0; ipack < outcount; ++ipack) t8_data_unpack (buffer, pos,
\* data[ipack], comm)
T8UnpackItems(T, buffer, ipack, st) ==
  IF ipack >= st.outcount \/ st.exit # "ok" THEN st
  ELSE LET u == single_unpack(T, buffer, Len(buffer), st.pos, st.data[ipack + 1])
       IN  T8UnpackItems(T, buffer, ipack + 1,
             [st EXCEPT !.exit = u.exit, !.pos = u.pos,
                        !.data[ipack + 1] = u.item])

\* t8_data_handler<T>::t8_data_unpack_vector
t8_data_unpack_vector(T, buffer, data, outcount0, debug_build) ==
  LET r == sc_MPI_Unpack(buffer, Len(buffer), 0, outcount0)
      outcount == r.val
      st == [exit |-> "ok", data |-> data, pos |-> r.pos,
             outcount |-> outcount]
  IN  IF r.ret # "sc_MPI_SUCCESS" THEN [st EXCEPT !.exit = "abort_mpi"]
      ELSE IF T8_ASSERT_fails(debug_build, outcount >= 0)
      THEN [st EXCEPT !.exit = "abort_assert"]
      ELSE IF ExceedsMaxSize(outcount)
      THEN [st EXCEPT !.exit = "length_error"]
      ELSE T8UnpackItems(T, buffer, 0,
             [st EXCEPT !.data = Resize(data, outcount)])

\* ------------------------------------------------------------------- state
VARIABLES
  debug_build,  \* T8_ENABLE_DEBUG of the build
  TypeParam,    \* the element type T the typed test is instantiated for
  c_stage,      \* pack/unpack scenario: "start", "packed", "unpacked", "stopped"
  c_op,         \* the last handler operation called
  c_src,        \* m_data of the packing handler (NULL or a collection)
  c_dst,        \* m_data of the unpacking handler (NULL or a collection)
  c_prev,       \* m_data of the unpacking handler before its unpack call
  c_buf,        \* the byte buffer
  c_ppos,       \* pos after the pack call
  c_upos,       \* pos after the unpack call
  c_outcount,   \* the caller's outcount
  c_exit,       \* how the last operation ended
  c_size,       \* the last value returned by buffer_size / t8_buffer_size
  c_num,        \* the num_data argument of the last t8_buffer_size call
  c_tampered,   \* the count prefix of c_buf was overwritten after packing
  c_packop      \* the pack function that filled c_buf

cvars ==
  << c_stage, c_op, c_src, c_dst, c_prev, c_buf, c_ppos, c_upos, c_outcount,
     c_exit, c_size, c_num, c_tampered, c_packop >>

VARIABLES
  mpi_enabled,  \* T8_ENABLE_MPI of the build
  mpisize,      \* number of ranks of the communicator
  pc,           \* pc[r]: where rank r stands in the ring test ("sc_MPI_Probe":
                \* in the probe of recv when the process was aborted)
  r_num_data,     \* r_num_data[r]: the round (collection length) of rank r
  h_send,       \* m_data of rank r's sending handler
  h_recv,       \* m_data of rank r's receiving handler
  h_before,     \* h_recv[r] when the current recv call started
  chan,         \* chan[s][d]: messages sent by s to d and not yet received
  aborted,      \* sc_abort was called: every rank has stopped
  ret,          \* ret[r]: value returned by rank r's last send / recv call
  calls,        \* calls[r]: the steps of rank r's current send / recv call
  infos,        \* infos[r]: t8_infof diagnostics of the current call
  r_status,       \* r_status[r]: the sc_MPI_Status of rank r
  r_num_bytes,    \* r_num_bytes[r] of the current recv call
  r_buffer,       \* r_buffer[r] of the current recv call
  r_outcount,     \* r_outcount[r] of the caller
  recvd         \* recvd[r]: (source, round) of the message last received

rvars ==
  << mpi_enabled, mpisize, pc, r_num_data, h_send, h_recv, h_before, chan,
     aborted, ret, calls, infos, r_status, r_num_bytes, r_buffer, r_outcount, recvd >>

VARIABLES
  b_stage,      \* manual batching: "encode1", "encode2", "decode1", "decode2",
                \* "done", "t8_packed", "stopped"
  b_obj,        \* b_obj[k]: the k-th packing handler object [T, m_data]
  b_obj0,       \* b_obj as constructed
  b_dst,        \* b_dst[k]: the k-th unpacking handler object [T, m_data]
  b_dst0,       \* b_dst as constructed
  b_buf,        \* the buffer the handlers share
  b_pos,        \* the cursor variable the calls share
  b_prebuf,     \* b_buf before the last pack / unpack call
  b_prepos,     \* the cursor handed to the last pack / unpack call
  b_marks,      \* the cursor after each pack / unpack call so far
  b_counts,     \* the outcount of each unpack call so far
  b_exit,       \* how the last pack / unpack call ended
  b_call        \* the last call: [op, k, value returned or bytes sent]

bvars ==
  << b_stage, b_obj, b_obj0, b_dst, b_dst0, b_buf, b_pos, b_prebuf, b_prepos, b_marks,
     b_counts, b_exit, b_call >>

VARIABLES
  s_val,        \* s_val[r]: creator->large_data[0] of rank r (single_data test)
  s_recv,       \* s_recv[r]: recv_data[0] of rank r (single_data test)
  x_strays      \* messages sent so far by other communication of the program

xvars == << bvars, s_val, s_recv, x_strays >>

VARIABLES
  w_len,        \* int width scenario: size () of the vector, a std::size_t
  w_call        \* the last call: [op, exit, value returned or count written]

wvars == << w_len, w_call >>

VARIABLES
  o_stage,      \* ownership scenario: "idle", "run", "stopped"
  o_heap,       \* o_heap[a]: the std::vector<T> at address a; address 1 is
                \* the caller's vector `data`
  o_h,          \* m_data of the handler: 0 (nullptr) or an address
  o_expect,     \* the collection the calls made so far give the handler
  o_out,        \* the caller's vector handed to get_data
  o_outcount,   \* the caller's outcount
  o_status,     \* the caller's sc_MPI_Status
  o_ret,        \* the value returned by the last send / recv call
  o_infos,      \* number of t8_infof diagnostics so far
  o_inbox,      \* messages sent to this rank and not yet received
  o_call,       \* the last call: [op, value]
  o_exit,       \* how the last call ended
  o_pre         \* heap, h, out, outcount, status before the last call

ovars ==
  << o_stage, o_heap, o_h, o_expect, o_out, o_outcount, o_status, o_ret,
     o_infos, o_inbox, o_call, o_exit, o_pre >>

VARIABLES
  v_stage,      \* vertex-to-tree scenario: "idle", "run", "stopped"
  v_cmesh,      \* the cmesh handed to the calls
  v_state,      \* state: "INITIALIZED" or "COMMITTED"
  v_vertex_to_tree,  \* vertex_to_tree: global vertex id -> list of pairs
  v_exit,       \* how the last call ended
  v_call,       \* the last call: [op, arg, value, state it was made in]
  v_committed,  \* vertex_to_tree when the state became COMMITTED
  v_adds        \* number of add_vertex_to_tree calls so far

tvars ==
  << v_stage, v_cmesh, v_state, v_vertex_to_tree, v_exit, v_call, v_committed,
     v_adds >>

yvars == << wvars, ovars, tvars >>

vars == << debug_build, TypeParam, yvars, cvars, rvars, xvars >>

\* No call of the int width scenario has been made.
NoResult == [op |-> "none", arg |-> 0, exit |-> "ok", value |-> 0]

\* The int width scenario is not running.
WidthIdle == w_len = << >> /\ w_call = NoResult

\* None of the scenarios on widths, ownership and vertex lists is running.
\* The ownership scenario is not running.
OwnIdle ==
  /\ o_stage = "idle" /\ o_heap = << >> /\ o_h = 0 /\ o_expect = << >>
  /\ o_out = << >> /\ o_outcount = 0 /\ o_status = << >> /\ o_ret = "none"
  /\ o_infos = 0 /\ o_inbox = << >> /\ o_call = << >> /\ o_exit = "ok"
  /\ o_pre = << >>

\* No vertex_to_tree has been recorded as committed.
NotCommitted == [set |-> FALSE, map |-> << >>]

\* The vertex-to-tree scenario is not running.
VttIdle ==
  /\ v_stage = "idle" /\ v_cmesh = << >> /\ v_state = "INITIALIZED"
  /\ v_vertex_to_tree = << >> /\ v_exit = "ok" /\ v_call = << >>
  /\ v_committed = NotCommitted /\ v_adds = 0

YIdle == WidthIdle /\ OwnIdle /\ VttIdle

\* No call of the manual batching scenario has been made.
NoCall == [op |-> "none", k |-> 0, value |-> << >>]

\* The manual batching scenario is not running.
BatchIdle ==
  /\ b_stage = "idle" /\ b_obj = << >> /\ b_obj0 = << >> /\ b_dst = << >>
  /\ b_dst0 = << >>
  /\ b_buf = << >> /\ b_pos = 0 /\ b_prebuf = << >> /\ b_prepos = 0
  /\ b_marks = << >> /\ b_counts = << >> /\ b_exit = "ok" /\ b_call = NoCall

\* Neither the manual batching scenario nor the single_data test is running.
ExtraIdle ==
  BatchIdle /\ s_val = << >> /\ s_recv = << >> /\ x_strays = 0 /\ YIdle

\* std::vector<char> buffer (n): n zero bytes.
ZeroBuffer(n) == [i \in 1..n |-> 0]

\* Count prefixes a received buffer may carry.
WireCounts == { -2147483647 - 1, -1 } \cup 0..MaxLen

\* ------------------------------------------- pack / unpack specification
CodecIdle ==
  /\ c_stage = "start" /\ c_op = "none"
  /\ c_prev = NULL /\ c_buf = << >> /\ c_ppos = 0 /\ c_upos = 0
  /\ c_outcount = 0 /\ c_exit = "ok" /\ c_size = 0 /\ c_num = 0
  /\ c_tampered = FALSE /\ c_packop = "none"

\* The ring test is not running.
RingIdle ==
  /\ mpi_enabled = TRUE /\ mpisize = 0 /\ aborted = FALSE
  /\ pc = << >> /\ r_num_data = << >> /\ h_send = << >> /\ h_recv = << >>
  /\ h_before = << >> /\ chan = << >> /\ ret = << >> /\ calls = << >>
  /\ infos = << >> /\ r_status = << >> /\ r_num_bytes = << >>
  /\ r_buffer = << >> /\ r_outcount = << >> /\ recvd = << >>

InitCodec ==
  /\ RingIdle /\ ExtraIdle
  /\ debug_build \in BOOLEAN
  /\ TypeParam \in Types
  /\ c_src \in {NULL} \cup { Owned(v) : v \in Collections(MaxLen) }
  /\ c_dst \in PriorContents(MaxLen)
  /\ CodecIdle

\* handler.buffer_size (comm)
CBufferSize ==
  /\ c_stage = "start" /\ c_op = "none"
  /\ c_size' = buffer_size(TypeParam, c_src)
  /\ c_op' = "buffer_size"
  /\ UNCHANGED << xvars, rvars, debug_build, TypeParam, yvars, c_stage, c_src, c_dst, c_prev, c_buf, c_ppos,
                  c_upos, c_outcount, c_exit, c_num, c_tampered, c_packop >>

\* handler.t8_buffer_size (num_data, comm)
CT8BufferSize(num_data) ==
  /\ c_stage = "start" /\ c_op = "none"
  /\ c_size' = t8_buffer_size(TypeParam, num_data)
  /\ c_num' = num_data
  /\ c_op' = "t8_buffer_size"
  /\ UNCHANGED << xvars, rvars, debug_build, TypeParam, yvars, c_stage, c_src, c_dst, c_prev, c_buf, c_ppos,
                  c_upos, c_outcount, c_exit, c_tampered, c_packop >>

\* std::vector<char> buffer (handler.buffer_size (comm)); int pos = 0;
\* handler.pack_vector_prefix (buffer.data (), buffer.size (), pos, comm).
\* Without a vector, m_data->size () dereferences a null pointer: the build
\* either faults or goes on as if the vector were empty; the scenario is not
\* followed past the undefined behaviour.
CPack ==
  /\ c_stage = "start"
  /\ c_op' = "pack_vector_prefix" /\ c_packop' = "pack_vector_prefix"
  /\ IF ~c_src.owns
     THEN \E outcome \in {"segfault", "empty"} :
            LET buffer == ZeroBuffer(buffer_size(TypeParam, c_src))
                r == pack_vector_prefix(TypeParam, Owned(<< >>), buffer, Len(buffer), 0)
            IN  IF outcome = "segfault"
                THEN /\ c_exit' = "segfault" /\ c_stage' = "stopped"
                     /\ UNCHANGED << c_buf, c_ppos >>
                ELSE /\ c_exit' = "undefined" /\ c_stage' = "stopped"
                     /\ c_buf' = r.buffer /\ c_ppos' = r.pos
     ELSE LET buffer == ZeroBuffer(buffer_size(TypeParam, c_src))
              r == pack_vector_prefix(TypeParam, c_src, buffer, Len(buffer), 0)
          IN  /\ c_exit' = r.exit /\ c_buf' = r.buffer /\ c_ppos' = r.pos
              /\ c_stage' = IF r.exit = "ok" THEN "packed" ELSE "stopped"
  /\ UNCHANGED << xvars, rvars, debug_build, TypeParam, yvars, c_src, c_dst, c_prev, c_upos, c_outcount,
                  c_size, c_num, c_tampered >>

\* std::vector<char> buffer (handler.t8_buffer_size (data.size (), comm));
\* handler.t8_data_pack_vector (data, data.size (), buffer, comm)
CT8Pack ==
  /\ c_stage = "start" /\ c_src.owns
  /\ c_op' = "t8_data_pack_vector" /\ c_packop' = "t8_data_pack_vector"
  /\ LET buffer == ZeroBuffer(t8_buffer_size(TypeParam, Len(c_src.vec)))
         r == t8_data_pack_vector(TypeParam, c_src.vec, Len(c_src.vec), buffer,
                                  debug_build)
     IN  /\ c_exit' = r.exit /\ c_buf' = r.buffer /\ c_ppos' = r.pos
         /\ c_stage' = IF r.exit = "ok" THEN "packed" ELSE "stopped"
  /\ UNCHANGED << xvars, rvars, debug_build, TypeParam, yvars, c_src, c_dst, c_prev, c_upos, c_outcount,
                  c_size, c_num, c_tampered >>

\* The buffer reaches the unpacking side with another count prefix (a
\* corrupted message, or one packed by a sender of another type).
CTamper(count) ==
  /\ c_stage = "packed" /\ ~c_tampered
  /\ count # DecodeInt([i \in 1..IntPackSize |-> c_buf[i]])
  /\ c_buf' = sc_MPI_Pack(count, c_buf, Len(c_buf), 0).buffer
  /\ c_tampered' = TRUE
  /\ UNCHANGED << xvars, rvars, debug_build, TypeParam, yvars, c_stage, c_op, c_src, c_dst, c_prev, c_ppos,
                  c_upos, c_outcount, c_exit, c_size, c_num, c_packop >>

\* int pos = 0; handler.unpack_vector_prefix (buffer, num_bytes, pos,
\* outcount, comm)
CUnpack ==
  /\ c_stage = "packed"
  /\ c_op' = "unpack_vector_prefix"
  /\ LET r == unpack_vector_prefix(TypeParam, c_dst, c_buf, Len(c_buf), 0, c_outcount,
                                   debug_build)
     IN  /\ c_exit' = r.exit /\ c_dst' = r.m_data /\ c_upos' = r.pos
         /\ c_outcount' = r.outcount
  /\ c_prev' = c_dst
  /\ c_stage' = "unpacked"
  /\ UNCHANGED << xvars, rvars, debug_build, TypeParam, yvars, c_src, c_buf, c_ppos, c_size, c_num,
                  c_tampered, c_packop >>

\* handler.t8_data_unpack_vector (buffer, data, outcount, comm)
CT8Unpack ==
  /\ c_stage = "packed" /\ c_dst.owns
  /\ c_op' = "t8_data_unpack_vector"
  /\ LET r == t8_data_unpack_vector(TypeParam, c_buf, c_dst.vec,
                                       c_outcount, debug_build)
     IN  /\ c_exit' = r.exit /\ c_dst' = Owned(r.data) /\ c_upos' = r.pos
         /\ c_outcount' = r.outcount
  /\ c_prev' = c_dst
  /\ c_stage' = "unpacked"
  /\ UNCHANGED << xvars, rvars, debug_build, TypeParam, yvars, c_src, c_buf, c_ppos, c_size, c_num,
                  c_tampered, c_packop >>

NextCodec ==
  \/ CBufferSize
  \/ \E num_data \in 0..MaxLen : CT8BufferSize(num_data)
  \/ CPack
  \/ CT8Pack
  \/ \E count \in WireCounts : CTamper(count)
  \/ CUnpack
  \/ CT8Unpack

SpecCodec == InitCodec /\ [][NextCodec]_vars

\* ----------------------------------------------------- ring exchange test
\* The ranks of the communicator.
Ranks == 0..(mpisize - 1)

\* Message tag of the ring test.
RingTag == 0

\* Statuses a transport call may return.
TransportStatuses == { "sc_MPI_SUCCESS", "sc_MPI_ERR_UNKNOWN" }

\* send / recv without T8_ENABLE_MPI returning success.
NoMpiStatus_success == "sc_MPI_SUCCESS"

\* The status send and recv return when T8_ENABLE_MPI is not set.
NoMpiStatus == "sc_MPI_ERR_OTHER"

\* creator->create (num_data): the collection rank mpirank sends in the round
\* of num_data elements.
create(mpirank, num_data) ==
  [i \in 1..num_data |->
     [data |-> 300 * mpirank + i - 2, check |-> 16 * mpirank + num_data]]

\* (mpirank + 1) % mpisize
send_to(mpirank) == (mpirank + 1) % mpisize

\* (mpirank == 0) ? (mpisize - 1) : (mpirank - 1)
recv_from(mpirank) == IF mpirank = 0 THEN mpisize - 1 ELSE mpirank - 1

\* A message matching the tag is pending in queue q.
HasMatch(q, tag) == \E i \in 1..Len(q) : q[i].tag = tag

\* The oldest message of q, whatever its tag.
FirstMatch_head(q, tag) == 1

\* The first message of q matching the tag (messages of one sender to one
\* receiver do not overtake each other).
FirstMatch(q, tag) ==
  CHOOSE i \in 1..Len(q) :
    q[i].tag = tag /\ \A j \in 1..(i - 1) : q[j].tag # tag

\* q without its i-th message.
RemoveAt(q, i) == [j \in 1..(Len(q) - 1) |-> IF j < i THEN q[j] ELSE q[j + 1]]

\* One step of a send / recv call, as calls[r] records it.
Call(op, peer, tag, len, bytes, st) ==
  [op |-> op, peer |-> peer, tag |-> tag, len |-> len, bytes |-> bytes,
   ret |-> st]

\* send with the count prefix counted twice in num_bytes.
send_pack_padded(T, m_data) ==
  LET bytes == buffer_size(T, m_data) + IntPackSize
  IN  pack_vector_prefix(T, m_data, ZeroBuffer(bytes), bytes, 0)

\* send: int pos = 0; num_bytes = buffer_size (comm); std::vector<char>
\* buffer (num_bytes); pack_vector_prefix (buffer.data (), num_bytes, pos, comm)
send_pack(T, m_data) ==
  LET bytes == buffer_size(T, m_data)
  IN  pack_vector_prefix(T, m_data, ZeroBuffer(bytes), bytes, 0)

\* recv sizing its buffer for one element instead of asking the envelope.
sc_MPI_Get_count_assumed(envelope) == t8_buffer_size("int", 1)

\* recv: sc_MPI_Get_count (status, sc_MPI_PACKED, &num_bytes)
sc_MPI_Get_count(envelope) == envelope.count

\* recv unpacking its buffer before the message has been received.
RecvNext_unpack_first(step) ==
  CASE step = "sc_MPI_Probe" -> "sc_MPI_Get_count"
    [] step = "sc_MPI_Get_count" -> "unpack_vector_prefix"
    [] step = "unpack_vector_prefix" -> "sc_MPI_Recv"
    [] step = "sc_MPI_Recv" -> "return"

\* The order of the steps of recv: the step that follows each step.
RecvNext(step) ==
  CASE step = "sc_MPI_Probe" -> "sc_MPI_Get_count"
    [] step = "sc_MPI_Get_count" -> "sc_MPI_Recv"
    [] step = "sc_MPI_Recv" -> "unpack_vector_prefix"
    [] step = "unpack_vector_prefix" -> "return"

\* The sc_MPI_Status of a rank that has not probed or received.
NoStatus == [source |-> -1, tag |-> -1, count |-> 0, round |-> 0]

InitRing ==
  /\ CodecIdle /\ c_src = NULL /\ c_dst = NULL /\ ExtraIdle
  /\ debug_build \in BOOLEAN
  /\ TypeParam \in Types
  /\ mpi_enabled \in BOOLEAN
  /\ mpisize \in 1..MaxP
  /\ aborted = FALSE
  /\ pc = [r \in Ranks |-> "create"]
  /\ r_num_data = [r \in Ranks |-> 1]
  /\ h_send = [r \in Ranks |-> NULL]
  /\ h_recv = [r \in Ranks |-> NULL]
  /\ h_before = [r \in Ranks |-> NULL]
  /\ chan = [s \in Ranks |-> [d \in Ranks |-> << >>]]
  /\ ret = [r \in Ranks |-> "none"]
  /\ calls = [r \in Ranks |-> << >>]
  /\ infos = [r \in Ranks |-> 0]
  /\ r_status = [r \in Ranks |-> NoStatus]
  /\ r_num_bytes = [r \in Ranks |-> 0]
  /\ r_buffer = [r \in Ranks |-> << >>]
  /\ r_outcount = [r \in Ranks |-> 0]
  /\ recvd = [r \in Ranks |-> NoStatus]

\* creator->create (num_data) and a handler constructed from the collection.
RCreate(r) ==
  /\ ~aborted /\ pc[r] = "create"
  /\ h_send' = [h_send EXCEPT ![r] = Owned(create(r, r_num_data[r]))]
  /\ pc' = [pc EXCEPT ![r] = "send"]
  /\ UNCHANGED << xvars, debug_build, TypeParam, yvars, cvars, mpi_enabled, mpisize, r_num_data,
                  h_recv, h_before, chan, aborted, ret, calls, infos,
                  r_status, r_num_bytes, r_buffer, r_outcount, recvd >>

\* handler.send (send_to, tag, comm) up to the return of sc_MPI_Send, or to
\* the point where sc_MPI_Send blocks until the message is received (the
\* transport either buffers a standard-mode send or not).
RSend(r) ==
  /\ ~aborted /\ pc[r] = "send"
  /\ IF ~mpi_enabled
     THEN /\ infos' = [infos EXCEPT ![r] = 1]
          /\ calls' = [calls EXCEPT ![r] = << >>]
          /\ ret' = [ret EXCEPT ![r] = NoMpiStatus]
          /\ pc' = [pc EXCEPT ![r] = "recv"]
          /\ UNCHANGED << chan, aborted >>
     ELSE LET p == send_pack(TypeParam, h_send[r])
              dest == send_to(r)
          IN  /\ infos' = [infos EXCEPT ![r] = 0]
              /\ IF p.exit # "ok"
                 THEN /\ aborted' = TRUE
                      /\ calls' = [calls EXCEPT ![r] = << >>]
                      /\ UNCHANGED << chan, ret, pc >>
                 ELSE \E st \in TransportStatuses, sync \in BOOLEAN :
                        /\ calls' = [calls EXCEPT ![r] =
                             << Call("sc_MPI_Send", dest, RingTag,
                                     Len(p.buffer), p.buffer, st) >>]
                        /\ IF st # "sc_MPI_SUCCESS"
                           THEN /\ aborted' = TRUE
                                /\ UNCHANGED << chan, ret, pc >>
                           ELSE /\ chan' = [chan EXCEPT ![r][dest] =
                                     Append(@, [tag |-> RingTag,
                                                bytes |-> p.buffer,
                                                source |-> r,
                                                round |-> r_num_data[r],
                                                sync |-> sync])]
                                /\ aborted' = aborted
                                /\ IF sync
                                   THEN /\ pc' = [pc EXCEPT ![r] = "send_wait"]
                                        /\ ret' = ret
                                   ELSE /\ pc' = [pc EXCEPT ![r] = "recv"]
                                        /\ ret' = [ret EXCEPT ![r] = st]
  /\ UNCHANGED << xvars, debug_build, TypeParam, yvars, cvars, mpi_enabled, mpisize, r_num_data,
                  h_send, h_recv, h_before, r_status, r_num_bytes, r_buffer,
                  r_outcount, recvd >>

\* A blocked sc_MPI_Send returns once its message has been received; send
\* returns its status.
RSendWait(r) ==
  /\ ~aborted /\ pc[r] = "send_wait"
  /\ \A i \in 1..Len(chan[r][send_to(r)]) :
       chan[r][send_to(r)][i].round # r_num_data[r]
  /\ ret' = [ret EXCEPT ![r] = calls[r][Len(calls[r])].ret]
  /\ pc' = [pc EXCEPT ![r] = "recv"]
  /\ UNCHANGED << xvars, debug_build, TypeParam, yvars, cvars, mpi_enabled, mpisize, r_num_data,
                  h_send, h_recv, h_before, chan, aborted, calls, infos,
                  r_status, r_num_bytes, r_buffer, r_outcount, recvd >>

\* Where a rank stands after a step of recv.
AfterStep(step) ==
  IF RecvNext(step) = "return" THEN "check" ELSE RecvNext(step)

\* int outcount = 0; handler.recv (recv_from, tag, comm, &status, outcount):
\* the start of the call and sc_MPI_Probe, which blocks until a matching
\* message is pending.
RProbe(r) ==
  /\ ~aborted /\ pc[r] = "recv"
  /\ r_outcount' = [r_outcount EXCEPT ![r] = 0]
  /\ h_before' = [h_before EXCEPT ![r] = h_recv[r]]
  /\ IF ~mpi_enabled
     THEN /\ infos' = [infos EXCEPT ![r] = 1]
          /\ calls' = [calls EXCEPT ![r] = << >>]
          /\ ret' = [ret EXCEPT ![r] = NoMpiStatus]
          /\ pc' = [pc EXCEPT ![r] = "check"]
          /\ UNCHANGED << aborted, r_status >>
     ELSE LET source == recv_from(r)
              q == chan[source][r]
          IN  /\ infos' = [infos EXCEPT ![r] = 0]
              /\ ret' = ret
              /\ \E st \in TransportStatuses :
                   /\ calls' = [calls EXCEPT ![r] =
                        << Call("sc_MPI_Probe", source, RingTag, 0, << >>, st) >>]
                   /\ IF st # "sc_MPI_SUCCESS"
                      THEN /\ aborted' = TRUE
                           /\ pc' = [pc EXCEPT ![r] = "sc_MPI_Probe"]
                           /\ UNCHANGED r_status
                      ELSE /\ HasMatch(q, RingTag)
                           /\ LET m == q[FirstMatch(q, RingTag)]
                              IN  r_status' = [r_status EXCEPT ![r] =
                                    [source |-> m.source, tag |-> m.tag,
                                     count |-> Len(m.bytes),
                                     round |-> m.round]]
                           /\ aborted' = aborted
                           /\ pc' = [pc EXCEPT ![r] = AfterStep("sc_MPI_Probe")]
  /\ UNCHANGED << xvars, debug_build, TypeParam, yvars, cvars, mpi_enabled, mpisize, r_num_data,
                  h_send, h_recv, chan, r_num_bytes, r_buffer, recvd >>

\* sc_MPI_Get_count (status, sc_MPI_PACKED, &num_bytes);
\* std::vector<char> buffer (num_bytes)
RGetCount(r) ==
  /\ ~aborted /\ pc[r] = "sc_MPI_Get_count"
  /\ \E st \in TransportStatuses :
       /\ IF st # "sc_MPI_SUCCESS"
          THEN /\ aborted' = TRUE
               /\ calls' = [calls EXCEPT ![r] = Append(@,
                    Call("sc_MPI_Get_count", recv_from(r), RingTag, 0, << >>, st))]
               /\ UNCHANGED << pc, r_num_bytes, r_buffer >>
          ELSE LET bytes == sc_MPI_Get_count(r_status[r])
               IN  /\ r_num_bytes' = [r_num_bytes EXCEPT ![r] = bytes]
                   /\ r_buffer' = [r_buffer EXCEPT ![r] = ZeroBuffer(bytes)]
                   /\ calls' = [calls EXCEPT ![r] = Append(Append(@,
                        Call("sc_MPI_Get_count", recv_from(r), RingTag, bytes,
                             << >>, st)),
                        Call("buffer", recv_from(r), RingTag, bytes, << >>, st))]
                   /\ aborted' = aborted
                   /\ pc' = [pc EXCEPT ![r] = AfterStep("sc_MPI_Get_count")]
  /\ UNCHANGED << xvars, debug_build, TypeParam, yvars, cvars, mpi_enabled, mpisize, r_num_data,
                  h_send, h_recv, h_before, chan, ret, infos, r_status,
                  r_outcount, recvd >>

\* sc_MPI_Recv (buffer.data (), num_bytes, sc_MPI_PACKED, source, tag, comm,
\* status): takes the first matching message; a message longer than the
\* buffer is a truncation error.
RMpiRecv(r) ==
  /\ ~aborted /\ pc[r] = "sc_MPI_Recv"
  /\ LET source == recv_from(r)
         q == chan[source][r]
     IN  \E st \in TransportStatuses :
           IF st # "sc_MPI_SUCCESS"
           THEN /\ aborted' = TRUE
                /\ calls' = [calls EXCEPT ![r] = Append(@,
                     Call("sc_MPI_Recv", source, RingTag, r_num_bytes[r], << >>, st))]
                /\ UNCHANGED << pc, chan, r_buffer, r_status, recvd >>
           ELSE /\ HasMatch(q, RingTag)
                /\ LET i == FirstMatch(q, RingTag)
                       m == q[i]
                   IN  IF Len(m.bytes) > r_num_bytes[r]
                       THEN /\ aborted' = TRUE
                            /\ calls' = [calls EXCEPT ![r] = Append(@,
                                 Call("sc_MPI_Recv", source, RingTag,
                                      r_num_bytes[r], << >>, "sc_MPI_ERR_TRUNCATE"))]
                            /\ chan' = [chan EXCEPT ![source][r] = RemoveAt(q, i)]
                            /\ UNCHANGED << pc, r_buffer, r_status, recvd >>
                       ELSE /\ aborted' = aborted
                            /\ calls' = [calls EXCEPT ![r] = Append(@,
                                 Call("sc_MPI_Recv", source, RingTag,
                                      r_num_bytes[r], m.bytes, st))]
                            /\ chan' = [chan EXCEPT ![source][r] = RemoveAt(q, i)]
                            /\ r_buffer' = [r_buffer EXCEPT ![r] =
                                 [j \in 1..Len(@) |->
                                    IF j <= Len(m.bytes) THEN m.bytes[j] ELSE @[j]]]
                            /\ r_status' = [r_status EXCEPT ![r] =
                                 [source |-> m.source, tag |-> m.tag,
                                  count |-> Len(m.bytes), round |-> m.round]]
                            /\ recvd' = [recvd EXCEPT ![r] =
                                 [source |-> m.source, tag |-> m.tag,
                                  count |-> Len(m.bytes), round |-> m.round]]
                            /\ pc' = [pc EXCEPT ![r] = AfterStep("sc_MPI_Recv")]
  /\ UNCHANGED << xvars, debug_build, TypeParam, yvars, cvars, mpi_enabled, mpisize, r_num_data,
                  h_send, h_recv, h_before, ret, infos, r_num_bytes,
                  r_outcount >>

\* unpack_vector_prefix (buffer.data (), num_bytes, pos, outcount, comm) with
\* pos = 0, and return mpiret once it is the last step.
RUnpack(r) ==
  /\ ~aborted /\ pc[r] = "unpack_vector_prefix"
  /\ LET u == unpack_vector_prefix(TypeParam, h_recv[r], r_buffer[r],
                                   r_num_bytes[r], 0,
                                   r_outcount[r], debug_build)
     IN  /\ h_recv' = [h_recv EXCEPT ![r] = u.m_data]
         /\ r_outcount' = [r_outcount EXCEPT ![r] = u.outcount]
         /\ calls' = [calls EXCEPT ![r] = Append(@,
              Call("unpack_vector_prefix", recv_from(r), RingTag,
                   r_num_bytes[r], r_buffer[r], u.exit))]
         /\ IF u.exit # "ok"
            THEN aborted' = TRUE /\ UNCHANGED << pc, ret >>
            ELSE /\ aborted' = aborted
                 /\ pc' = [pc EXCEPT ![r] = AfterStep("unpack_vector_prefix")]
                 /\ ret' = [ret EXCEPT ![r] =
                      IF RecvNext("unpack_vector_prefix") = "return"
                      THEN "sc_MPI_SUCCESS" ELSE @]
  /\ UNCHANGED << xvars, debug_build, TypeParam, yvars, cvars, mpi_enabled, mpisize, r_num_data,
                  h_send, h_before, chan, infos, r_status, r_num_bytes,
                  r_buffer, recvd >>

\* The EXPECT_EQ checks of the round, then the next round of the loop
\* for (num_data = 1; num_data < max_num_data; num_data++).
RCheck(r) ==
  /\ ~aborted /\ pc[r] = "check"
  /\ IF r_num_data[r] < MaxRounds
     THEN /\ r_num_data' = [r_num_data EXCEPT ![r] = @ + 1]
          /\ pc' = [pc EXCEPT ![r] = "create"]
     ELSE /\ pc' = [pc EXCEPT ![r] = "done"]
          /\ UNCHANGED r_num_data
  /\ UNCHANGED << xvars, debug_build, TypeParam, yvars, cvars, mpi_enabled, mpisize, h_send, h_recv,
                  h_before, chan, aborted, ret, calls, infos, r_status,
                  r_num_bytes, r_buffer, r_outcount, recvd >>

Next ==
  \/ \E r \in Ranks : RCreate(r)
  \/ \E r \in Ranks : RSend(r)
  \/ \E r \in Ranks : RSendWait(r)
  \/ \E r \in Ranks : RProbe(r)
  \/ \E r \in Ranks : RGetCount(r)
  \/ \E r \in Ranks : RMpiRecv(r)
  \/ \E r \in Ranks : RUnpack(r)
  \/ \E r \in Ranks : RCheck(r)

Spec == InitRing /\ [][Next]_vars

\* ------------------------------------------------------- manual batching
\* Two handlers, held as t8_abstract_data_handler *, pack their collections
\* one after the other into one buffer with one cursor variable; two handlers
\* of the same types unpack them in the same order with a cursor reset to 0.

\* A virtual call with every object treated as t8_data_handler
\* <enlarged_data<int>>.
Override_first_type(obj) == "int"

\* The class whose overrides a call through t8_abstract_data_handler * runs:
\* the class of the object, t8_data_handler<T>.
Override(obj) == obj.T

\* A loop that moves the items out of the vector it visits.
ConstLoop_moving(m_data) == [m_data EXCEPT !.vec = << >>]

\* for (const auto &item : *m_data) in buffer_size and pack_vector_prefix
\* (and if (m_data) before it): the vector once the loop is over.
ConstLoop(m_data) == m_data

\* type () returning the tag of enlarged_data<int> for every T.
type_untyped(obj_T) == 0

\* t8_data_handler<T>::type
type(obj_T) == single_type(obj_T)

\* How far the buffer is larger (smaller, if negative) than the two
\* collections need.
Slacks == { -1, 0, 1 }

\* The handler objects of the scenario.
Handler(obj_T, m_data) == [T |-> obj_T, m_data |-> m_data]

InitBatch ==
  /\ CodecIdle /\ c_src = NULL /\ c_dst = NULL /\ RingIdle
  /\ s_val = << >> /\ s_recv = << >> /\ x_strays = 0 /\ YIdle
  /\ debug_build \in BOOLEAN
  /\ TypeParam = "int"
  /\ \E T1 \in Types, T2 \in Types, n1 \in 0..MaxLen, n2 \in 0..MaxLen,
        prior \in PriorContents(1) \ {Owned(<< >>)}, slack \in Slacks :
       /\ b_obj = << Handler(T1, Owned(create(1, n1))),
                     Handler(T2, Owned(create(2, n2))) >>
       /\ b_dst = << Handler(T1, prior), Handler(T2, prior) >>
       /\ b_buf = ZeroBuffer(buffer_size(T1, b_obj[1].m_data)
                             + buffer_size(T2, b_obj[2].m_data) + slack)
  /\ b_obj0 = b_obj /\ b_dst0 = b_dst
  /\ b_stage = "encode1" /\ b_pos = 0 /\ b_prebuf = << >> /\ b_prepos = 0
  /\ b_marks = << >> /\ b_counts = << >> /\ b_exit = "ok" /\ b_call = NoCall

\* The scenario is running: no call has ended it.
BatchRunning ==
  b_stage \in {"encode1", "encode2", "decode1", "decode2", "done"}

\* h->buffer_size (comm) on the k-th packing handler
BSize(k) ==
  /\ BatchRunning
  /\ LET obj == b_obj[k]
     IN  /\ b_call' = [op |-> "buffer_size", k |-> k,
                       value |-> << buffer_size(Override(obj), obj.m_data) >>]
         /\ b_obj' = [b_obj EXCEPT ![k].m_data = ConstLoop(@)]
  /\ UNCHANGED << debug_build, TypeParam, yvars, cvars, rvars, s_val, s_recv,
                  x_strays, b_stage, b_obj0, b_dst, b_dst0, b_buf, b_pos, b_prebuf,
                  b_prepos, b_marks, b_counts, b_exit >>

\* h->type () on the k-th packing (k = 1, 2) or unpacking (k = 3, 4) handler
BType(k) ==
  /\ BatchRunning
  /\ LET obj == IF k <= 2 THEN b_obj[k] ELSE b_dst[k - 2]
     IN  b_call' = [op |-> "type", k |-> k, value |-> << type(Override(obj)) >>]
  /\ UNCHANGED << debug_build, TypeParam, yvars, cvars, rvars, s_val, s_recv,
                  x_strays, b_stage, b_obj, b_obj0, b_dst, b_dst0, b_buf, b_pos,
                  b_prebuf, b_prepos, b_marks, b_counts, b_exit >>

\* h->send (dest, tag, comm) on the k-th packing handler, up to the call of
\* sc_MPI_Send: value is the buffer handed to the transport.
BSend(k) ==
  /\ BatchRunning
  /\ LET obj == b_obj[k]
         p == send_pack(Override(obj), obj.m_data)
     IN  /\ p.exit = "ok"
         /\ b_call' = [op |-> "send", k |-> k, value |-> p.buffer]
         /\ b_obj' = [b_obj EXCEPT ![k].m_data = ConstLoop(ConstLoop(@))]
  /\ UNCHANGED << debug_build, TypeParam, yvars, cvars, rvars, s_val, s_recv,
                  x_strays, b_stage, b_obj0, b_dst, b_dst0, b_buf, b_pos, b_prebuf,
                  b_prepos, b_marks, b_counts, b_exit >>

\* h->pack_vector_prefix (buffer.data (), buffer.size (), pos, comm) on the
\* first, then on the second packing handler.
BEncode ==
  /\ b_stage \in {"encode1", "encode2"}
  /\ LET k == IF b_stage = "encode1" THEN 1 ELSE 2
         obj == b_obj[k]
         r == pack_vector_prefix(Override(obj), obj.m_data, b_buf, Len(b_buf),
                                 b_pos)
     IN  /\ b_buf' = r.buffer /\ b_pos' = r.pos /\ b_exit' = r.exit
         /\ b_marks' = Append(b_marks, r.pos)
         /\ b_call' = [op |-> "pack_vector_prefix", k |-> k, value |-> << >>]
         /\ b_obj' = [b_obj EXCEPT ![k].m_data = ConstLoop(@)]
         /\ b_stage' = IF r.exit # "ok" THEN "stopped"
                       ELSE IF k = 1 THEN "encode2" ELSE "decode1"
  /\ b_prebuf' = b_buf /\ b_prepos' = b_pos
  /\ UNCHANGED << debug_build, TypeParam, yvars, cvars, rvars, s_val, s_recv,
                  x_strays, b_obj0, b_dst, b_dst0, b_counts >>

\* pos = 0 before the first call; int outcount = 0;
\* g->unpack_vector_prefix (buffer.data (), buffer.size (), pos, outcount,
\* comm) on the first, then on the second unpacking handler.
BDecode ==
  /\ b_stage \in {"decode1", "decode2"}
  /\ LET k == IF b_stage = "decode1" THEN 1 ELSE 2
         obj == b_dst[k]
         pos == IF k = 1 THEN 0 ELSE b_pos
         r == unpack_vector_prefix(Override(obj), obj.m_data, b_buf,
                                   Len(b_buf), pos, 0, debug_build)
     IN  /\ b_dst' = [b_dst EXCEPT ![k].m_data = r.m_data]
         /\ b_pos' = r.pos /\ b_exit' = r.exit /\ b_prepos' = pos
         /\ b_marks' = Append(b_marks, r.pos)
         /\ b_counts' = Append(b_counts, r.outcount)
         /\ b_call' = [op |-> "unpack_vector_prefix", k |-> k, value |-> << >>]
         /\ b_stage' = IF r.exit # "ok" THEN "stopped"
                       ELSE IF k = 1 THEN "decode2" ELSE "done"
  /\ b_prebuf' = b_buf
  /\ UNCHANGED << debug_build, TypeParam, yvars, cvars, rvars, s_val, s_recv,
                  x_strays, b_obj, b_obj0, b_dst0, b_buf >>

\* The static-inheritance variant packing the first collection into a buffer
\* of its own: std::vector<char> buffer (n);
\* handler.t8_data_pack_vector (data, data.size (), buffer, comm)
BT8Pack(slack) ==
  /\ b_stage = "encode1"
  /\ LET obj == b_obj[1]
         num_data == Len(obj.m_data.vec)
         n == t8_buffer_size(obj.T, num_data) + slack
         buffer == ZeroBuffer(IF n < 0 THEN 0 ELSE n)
         r == t8_data_pack_vector(obj.T, obj.m_data.vec, num_data, buffer,
                                  debug_build)
     IN  /\ b_prebuf' = buffer /\ b_prepos' = 0
         /\ b_buf' = r.buffer /\ b_pos' = r.pos /\ b_exit' = r.exit
         /\ b_marks' = Append(b_marks, r.pos)
         /\ b_call' = [op |-> "t8_data_pack_vector", k |-> 1, value |-> << >>]
         /\ b_stage' = IF r.exit # "ok" THEN "stopped" ELSE "t8_packed"
  /\ UNCHANGED << debug_build, TypeParam, yvars, cvars, rvars, s_val, s_recv,
                  x_strays, b_obj, b_obj0, b_dst, b_dst0, b_counts >>

NextBatch ==
  \/ \E k \in 1..2 : BSize(k)
  \/ \E k \in 1..4 : BType(k)
  \/ \E k \in 1..2 : BSend(k)
  \/ BEncode
  \/ BDecode
  \/ \E slack \in Slacks : BT8Pack(slack)

SpecBatch == InitBatch /\ [][NextBatch]_vars

\* ----------------------------------------------------- single_data test
\* Every rank packs one value, sends it to the next rank of the ring, probes
\* for and receives the value of the previous rank, and unpacks it.

InitSingle ==
  /\ CodecIdle /\ c_src = NULL /\ c_dst = NULL /\ BatchIdle /\ x_strays = 0
  /\ YIdle
  /\ debug_build = FALSE
  /\ TypeParam \in Types
  /\ mpi_enabled = TRUE
  /\ mpisize \in 1..MaxP
  /\ aborted = FALSE
  /\ pc = [r \in Ranks |-> "s_create"]
  /\ r_num_data = [r \in Ranks |-> 1]
  /\ h_send = [r \in Ranks |-> NULL]
  /\ h_recv = [r \in Ranks |-> NULL]
  /\ h_before = [r \in Ranks |-> NULL]
  /\ chan = [s \in Ranks |-> [d \in Ranks |-> << >>]]
  /\ ret = [r \in Ranks |-> "none"]
  /\ calls = [r \in Ranks |-> << >>]
  /\ infos = [r \in Ranks |-> 0]
  /\ r_status = [r \in Ranks |-> NoStatus]
  /\ r_num_bytes = [r \in Ranks |-> 0]
  /\ r_buffer = [r \in Ranks |-> << >>]
  /\ r_outcount = [r \in Ranks |-> 0]
  /\ recvd = [r \in Ranks |-> NoStatus]
  /\ s_val = [r \in Ranks |-> DefaultElem]
  /\ s_recv = [r \in Ranks |-> DefaultElem]

\* std::vector<char> buffer (buffer_size (1, comm)); creator->create (1);
\* pos = 0; data_pack (large_data[0], pos, buffer, comm); sc_MPI_Send (buffer
\* .data (), buffer.size (), sc_MPI_PACKED, (mpirank + 1) % mpisize, 0, comm),
\* up to its return or to the point where it blocks.
SPackSend(r) ==
  /\ ~aborted /\ pc[r] = "s_create"
  /\ \E v \in Elems, st \in TransportStatuses, sync \in BOOLEAN :
       LET buffer == ZeroBuffer(t8_buffer_size(TypeParam, 1))
           p == single_pack(TypeParam, v, 0, buffer, Len(buffer))
       IN  /\ s_val' = [s_val EXCEPT ![r] = v]
           /\ IF p.exit # "ok" \/ st # "sc_MPI_SUCCESS"
              THEN aborted' = TRUE /\ UNCHANGED << chan, pc >>
              ELSE /\ aborted' = aborted
                   /\ chan' = [chan EXCEPT ![r][send_to(r)] =
                        Append(@, [tag |-> RingTag, bytes |-> p.buffer,
                                   source |-> r, round |-> 1, sync |-> sync])]
                   /\ pc' = [pc EXCEPT ![r] =
                        IF sync THEN "s_send_wait" ELSE "s_probe"]
  /\ UNCHANGED << debug_build, TypeParam, yvars, cvars, bvars, mpi_enabled, mpisize,
                  r_num_data, h_send, h_recv, h_before, ret, calls, infos,
                  r_status, r_num_bytes, r_buffer, r_outcount, recvd, s_recv,
                  x_strays >>

\* A blocked sc_MPI_Send returns once its message has been received.
SSendWait(r) ==
  /\ ~aborted /\ pc[r] = "s_send_wait"
  /\ chan[r][send_to(r)] = << >>
  /\ pc' = [pc EXCEPT ![r] = "s_probe"]
  /\ UNCHANGED << debug_build, TypeParam, yvars, cvars, bvars, mpi_enabled, mpisize,
                  r_num_data, h_send, h_recv, h_before, chan, aborted, ret,
                  calls, infos, r_status, r_num_bytes, r_buffer, r_outcount,
                  recvd, s_val, s_recv, x_strays >>

\* sc_MPI_Probe (recv_from, 0, comm, &status), which blocks until a message
\* is pending; sc_MPI_Get_count (&status, sc_MPI_PACKED, &size);
\* std::vector<char> packed (size)
SProbe(r) ==
  /\ ~aborted /\ pc[r] = "s_probe"
  /\ \E st \in TransportStatuses :
       IF st # "sc_MPI_SUCCESS"
       THEN aborted' = TRUE /\ UNCHANGED << pc, r_status, r_num_bytes, r_buffer >>
       ELSE LET q == chan[recv_from(r)][r]
            IN  /\ HasMatch(q, RingTag)
                /\ LET m == q[FirstMatch(q, RingTag)]
                       envelope == [source |-> m.source, tag |-> m.tag,
                                    count |-> Len(m.bytes), round |-> m.round]
                   IN  /\ r_status' = [r_status EXCEPT ![r] = envelope]
                       /\ r_num_bytes' = [r_num_bytes EXCEPT ![r] =
                            sc_MPI_Get_count(envelope)]
                       /\ r_buffer' = [r_buffer EXCEPT ![r] =
                            ZeroBuffer(sc_MPI_Get_count(envelope))]
                /\ aborted' = aborted
                /\ pc' = [pc EXCEPT ![r] = "s_recv"]
  /\ UNCHANGED << debug_build, TypeParam, yvars, cvars, bvars, mpi_enabled, mpisize,
                  r_num_data, h_send, h_recv, h_before, chan, ret, calls,
                  infos, r_outcount, recvd, s_val, s_recv, x_strays >>

\* pos = 0; sc_MPI_Recv (packed.data (), packed.size (), sc_MPI_PACKED,
\* recv_from, pos, comm, &status)
SRecv(r) ==
  /\ ~aborted /\ pc[r] = "s_recv"
  /\ LET pos == 0
         q == chan[recv_from(r)][r]
     IN  \E st \in TransportStatuses :
           IF st # "sc_MPI_SUCCESS"
           THEN aborted' = TRUE /\ UNCHANGED << pc, chan, r_buffer, recvd >>
           ELSE /\ HasMatch(q, pos)
                /\ LET i == FirstMatch(q, pos)
                       m == q[i]
                   IN  IF Len(m.bytes) > r_num_bytes[r]
                       THEN /\ aborted' = TRUE
                            /\ chan' = [chan EXCEPT ![recv_from(r)][r] =
                                 RemoveAt(q, i)]
                            /\ UNCHANGED << pc, r_buffer, recvd >>
                       ELSE /\ aborted' = aborted
                            /\ chan' = [chan EXCEPT ![recv_from(r)][r] =
                                 RemoveAt(q, i)]
                            /\ r_buffer' = [r_buffer EXCEPT ![r] =
                                 [j \in 1..Len(@) |->
                                    IF j <= Len(m.bytes) THEN m.bytes[j] ELSE @[j]]]
                            /\ recvd' = [recvd EXCEPT ![r] =
                                 [source |-> m.source, tag |-> m.tag,
                                  count |-> Len(m.bytes), round |-> m.round]]
                            /\ pc' = [pc EXCEPT ![r] = "s_unpack"]
  /\ UNCHANGED << debug_build, TypeParam, yvars, cvars, bvars, mpi_enabled, mpisize,
                  r_num_data, h_send, h_recv, h_before, ret, calls, infos,
                  r_status, r_num_bytes, r_outcount, s_val, s_recv, x_strays >>

\* recv_data.resize (1); pos = 0; data_unpack (packed, pos, recv_data[0],
\* comm); the EXPECT_EQ checks follow.
SUnpack(r) ==
  /\ ~aborted /\ pc[r] = "s_unpack"
  /\ LET u == single_unpack(TypeParam, r_buffer[r], Len(r_buffer[r]), 0,
                            Resize(<< >>, 1)[1])
     IN  /\ s_recv' = [s_recv EXCEPT ![r] = u.item]
         /\ IF u.exit # "ok"
            THEN aborted' = TRUE /\ UNCHANGED pc
            ELSE aborted' = aborted /\ pc' = [pc EXCEPT ![r] = "s_check"]
  /\ UNCHANGED << debug_build, TypeParam, yvars, cvars, bvars, mpi_enabled, mpisize,
                  r_num_data, h_send, h_recv, h_before, chan, ret, calls,
                  infos, r_status, r_num_bytes, r_buffer, r_outcount, recvd,
                  s_val, x_strays >>

NextSingle ==
  \/ \E r \in Ranks : SPackSend(r)
  \/ \E r \in Ranks : SSendWait(r)
  \/ \E r \in Ranks : SProbe(r)
  \/ \E r \in Ranks : SRecv(r)
  \/ \E r \in Ranks : SUnpack(r)

SpecSingle == InitSingle /\ [][NextSingle]_vars

\* ------------------------------------- ring exchange with other messages
\* The ring exchange in a program whose ranks also send other messages:
\* with another tag, or to a rank that is not their successor in the ring.

\* Largest number of messages outside the ring exchange.
MaxStray == 1

\* The tags of the messages of the program.
Tags == { RingTag, RingTag + 1 }

InitStray ==
  /\ InitRing
  /\ mpi_enabled /\ ~debug_build /\ TypeParam = "int"

\* Another handler of rank s sends a one-element collection to rank d with
\* some tag (send returns: the transport buffers the message) while d waits
\* in the probe of its recv of the ring exchange; the message is not one the
\* probe matches.
RStray(s, d, tag) ==
  /\ ~aborted /\ x_strays < MaxStray
  /\ pc[d] = "recv" /\ ~HasMatch(chan[recv_from(d)][d], RingTag)
  /\ tag # RingTag \/ s # recv_from(d)
  /\ LET p == send_pack(TypeParam, Owned(<< DefaultElem >>))
     IN  chan' = [chan EXCEPT ![s][d] =
                    Append(@, [tag |-> tag, bytes |-> p.buffer, source |-> s,
                               round |-> 0, sync |-> FALSE])]
  /\ x_strays' = x_strays + 1
  /\ UNCHANGED << debug_build, TypeParam, yvars, cvars, bvars, s_val, s_recv,
                  mpi_enabled, mpisize, pc, r_num_data, h_send, h_recv,
                  h_before, aborted, ret, calls, infos, r_status, r_num_bytes,
                  r_buffer, r_outcount, recvd >>

NextStray ==
  \/ Next
  \/ \E s \in Ranks, d \in Ranks, tag \in Tags : RStray(s, d, tag)

SpecStray == InitStray /\ [][NextStray]_vars

\* ------------------------------------------------- int and std::size_t
\* The largest and the smallest value of an int (32 bits, two's complement).
INT_MAX == 2147483647

INT_MIN == (-INT_MAX) - 1

\* The std::size_t (64 bits) of value n, 0 <= n <= INT_MAX, as its four
\* 16-bit limbs, least significant first.
size_t(n) == << n % 65536, n \div 65536, 0, 0 >>

\* The std::size_t 2^31, the first that an int does not hold.
SizeAboveInt == << 0, 32768, 0, 0 >>

\* An int holds the value of the std::size_t z.
FitsInt(z) == z[2] < 32768 /\ z[3] = 0 /\ z[4] = 0

\* const int num_data = m_data->size (): the conversion of a std::size_t to
\* int keeps the low 32 bits, read as two's complement.
int_of_size_t(z) ==
  IF z[2] >= 32768 THEN ((z[1] + 65536 * (z[2] - 32768)) - INT_MAX) - 1
  ELSE z[1] + 65536 * z[2]

\* a + b reduced modulo 2^32 into the range of int.
WrapAdd(a, b) ==
  IF b > 0 /\ a > INT_MAX - b THEN (((a - INT_MAX) - 1) + b) + INT_MIN
  ELSE IF b < 0 /\ a < INT_MIN - b THEN (((a - INT_MIN) + b) + INT_MAX) + 1
  ELSE a + b

RECURSIVE WrapMul(_, _)
\* a * s reduced modulo 2^32 into the range of int, for a small s >= 0.
WrapMul(a, s) == IF s = 0 THEN 0 ELSE WrapAdd(WrapMul(a, s - 1), a)

\* What a build makes of a signed overflow, which is undefined: the value
\* reduced modulo 2^32, or a trap (-ftrapv, a sanitizer).
OverflowOutcomes == { "wrap", "trap" }

\* The outcome of an int computation with the mathematical value
\* total_size + n * single, n >= 0 or the low 32 bits of the count.
IntResult(in_range, total_size, n, single, outcome) ==
  IF in_range THEN [exit |-> "ok", value |-> total_size + n * single]
  ELSE IF outcome = "trap" THEN [exit |-> "overflow_trap", value |-> 0]
  ELSE [exit |-> "overflow_wrap",
        value |-> WrapAdd(total_size, WrapMul(n, single))]

\* buffer_size on a handler owning a vector of size z, in the int arithmetic
\* of the code: int total_size = (size of the count); total_size +=
\* single_handler.size (item, comm) once for each item. Every item has the
\* same size, so that the sums grow up to total_size + n * single.
buffer_size_int(T, z, outcome) ==
  LET single == single_size(T, DefaultElem)
      n == int_of_size_t(z)
  IN  IntResult(FitsInt(z) /\ n <= (INT_MAX - IntPackSize) \div single,
                IntPackSize, n, single, outcome)

\* t8_buffer_size in the int arithmetic of the code:
\* return num_data_size + num_data * single_size, for num_data >= 0.
t8_buffer_size_int(T, num_data, outcome) ==
  LET single == single_size(T, DefaultElem)
  IN  IntResult(num_data <= (INT_MAX - IntPackSize) \div single,
                IntPackSize, num_data, single, outcome)

\* pack_vector_prefix (buffer, num_bytes, pos, comm) with pos = 0 and a buffer
\* of num_bytes = the size of the count, on a handler owning a vector of size
\* z: the count is written, and the pack of the first item, if there is one,
\* fails in its SC_CHECK_MPI.
pack_vector_prefix_count(T, z) ==
  LET num_data == int_of_size_t(z)
      buffer == ZeroBuffer(IntPackSize)
      r == sc_MPI_Pack(num_data, buffer, IntPackSize, 0)
  IN  IF r.ret # "sc_MPI_SUCCESS" \/ z = size_t(0)
      THEN [exit |-> IF r.ret = "sc_MPI_SUCCESS" THEN "ok" ELSE "abort_mpi",
            buffer |-> r.buffer, pos |-> r.pos]
      ELSE single_pack(T, DefaultElem, r.pos, r.buffer, IntPackSize)

\* ------------------------------------------------------ int width scenario
\* A handler owns a vector of some size, up to the sizes where its buffer
\* size comes near the largest int; buffer_size, t8_buffer_size and
\* pack_vector_prefix are called on it.

\* The largest number of elements of type T whose buffer size an int holds.
MaxExact(T) == (INT_MAX - IntPackSize) \div single_size(T, DefaultElem)

\* The numbers of elements of the scenario.
Lengths ==
  { 0, 1, MaxLen, INT_MAX }
    \cup { MaxExact(T) : T \in Types } \cup { MaxExact(T) + 1 : T \in Types }

InitWidth ==
  /\ CodecIdle /\ c_src = NULL /\ c_dst = NULL /\ RingIdle
  /\ BatchIdle /\ s_val = << >> /\ s_recv = << >> /\ x_strays = 0
  /\ debug_build \in BOOLEAN
  /\ TypeParam \in Types
  /\ OwnIdle /\ VttIdle
  /\ w_len \in { size_t(n) : n \in Lengths } \cup { SizeAboveInt }
  /\ w_call = NoResult

\* handler.buffer_size (comm)
WBufferSize ==
  /\ \E outcome \in OverflowOutcomes :
       LET r == buffer_size_int(TypeParam, w_len, outcome)
       IN  w_call' = [op |-> "buffer_size", arg |-> 0, exit |-> r.exit,
                      value |-> r.value]
  /\ UNCHANGED << debug_build, TypeParam, cvars, rvars, xvars, ovars,
                  tvars, w_len >>

\* handler.t8_buffer_size (num_data, comm)
WT8BufferSize(num_data) ==
  /\ \E outcome \in OverflowOutcomes :
       LET r == t8_buffer_size_int(TypeParam, num_data, outcome)
       IN  w_call' = [op |-> "t8_buffer_size", arg |-> num_data,
                      exit |-> r.exit, value |-> r.value]
  /\ UNCHANGED << debug_build, TypeParam, cvars, rvars, xvars, ovars,
                  tvars, w_len >>

\* std::vector<char> buffer (the size of the count); int pos = 0;
\* handler.pack_vector_prefix (buffer.data (), buffer.size (), pos, comm):
\* value is the count the buffer holds.
WPackCount ==
  /\ LET r == pack_vector_prefix_count(TypeParam, w_len)
     IN  w_call' = [op |-> "pack_vector_prefix", arg |-> 0, exit |-> r.exit,
                    value |-> DecodeInt(r.buffer)]
  /\ UNCHANGED << debug_build, TypeParam, cvars, rvars, xvars, ovars,
                  tvars, w_len >>

NextWidth ==
  \/ WBufferSize
  \/ \E num_data \in Lengths : WT8BufferSize(num_data)
  \/ WPackCount

SpecWidth == InitWidth /\ [][NextWidth]_vars

\* ----------------------------------------------------- ownership scenario
\* A caller holds a vector `data` and constructs a handler, from it or
\* without data; the caller goes on changing its vector and calls get_data,
\* pack_vector_prefix, unpack_vector_prefix, send and recv on the handler.

\* m_data pointing to the caller's vector instead of a copy of it.
make_shared_vector_alias(heap, a) == [heap |-> heap, ptr |-> a]

\* m_data (std::make_shared<std::vector<T>> (data)): a new vector,
\* copy-constructed from the vector at address a.
make_shared_vector(heap, a) ==
  [heap |-> Append(heap, heap[a]), ptr |-> Len(heap) + 1]

\* m_data as the operations of the handler see it: nullptr, or the vector it
\* points to.
Deref(heap, ptr) == IF ptr = 0 THEN NULL ELSE Owned(heap[ptr])

\* The heap and the pointer once an operation has left the handler owning
\* m_data: m_data = std::make_shared<std::vector<T>> (outcount) allocates a
\* vector when there was none, m_data->resize and the unpack loop write to
\* the vector m_data points to.
Store(heap, ptr, m_data) ==
  IF ~m_data.owns THEN [heap |-> heap, ptr |-> ptr]
  ELSE IF ptr = 0
  THEN [heap |-> Append(heap, m_data.vec), ptr |-> Len(heap) + 1]
  ELSE [heap |-> [heap EXCEPT ![ptr] = m_data.vec], ptr |-> ptr]

\* t8_data_handler<T>::get_data: if (m_data) data = *m_data
get_data(heap, ptr, data) == IF ptr # 0 THEN heap[ptr] ELSE data

\* The branch without T8_ENABLE_MPI setting the caller's outcount to 0.
without_mpi_zeroing(st) ==
  [st EXCEPT !.infos = @ + 1, !.ret = NoMpiStatus, !.outcount = 0]

\* send and recv when T8_ENABLE_MPI is not set: t8_infof (...);
\* return sc_MPI_ERR_OTHER. st is what the caller and the handler hold.
without_mpi(st) == [st EXCEPT !.infos = @ + 1, !.ret = NoMpiStatus]

\* The vectors the caller assigns to `data`.
CallerVectors == { << >>, create(3, 1) }

\* The lengths of the collections the handler unpacks.
UnpackLengths == { 1, MaxLen }

\* Largest number of calls of send and recv in a build without T8_ENABLE_MPI.
MaxInfos == 2

\* The values an int outcount of the caller holds before a call.
OutcountsBefore == { 0, MaxLen + 1 }

\* The values a sc_MPI_Status of the caller holds before a call.
StatusesBefore ==
  { NoStatus, [source |-> 0, tag |-> RingTag + 1, count |-> 1, round |-> 0] }

\* The message a handler owning create (2, k) sends.
MessageOf(T, k) ==
  [tag |-> RingTag, bytes |-> send_pack(T, Owned(create(2, k))).buffer,
   source |-> 0, round |-> k, sync |-> FALSE]

\* What the caller and the handler hold.
OwnState ==
  [heap |-> o_heap, h |-> o_h, out |-> o_out, outcount |-> o_outcount,
   status |-> o_status, infos |-> o_infos, ret |-> o_ret]

\* OwnState without the diagnostics and the returned value.
Held(st) ==
  [heap |-> st.heap, h |-> st.h, out |-> st.out, outcount |-> st.outcount,
   status |-> st.status]

InitOwn ==
  /\ CodecIdle /\ c_src = NULL /\ c_dst = NULL
  /\ BatchIdle /\ s_val = << >> /\ s_recv = << >> /\ x_strays = 0
  /\ WidthIdle /\ VttIdle
  /\ mpi_enabled \in BOOLEAN /\ mpisize = 0 /\ aborted = FALSE
  /\ pc = << >> /\ r_num_data = << >> /\ h_send = << >> /\ h_recv = << >>
  /\ h_before = << >> /\ chan = << >> /\ ret = << >> /\ calls = << >>
  /\ infos = << >> /\ r_status = << >> /\ r_num_bytes = << >>
  /\ r_buffer = << >> /\ r_outcount = << >> /\ recvd = << >>
  /\ debug_build = FALSE
  /\ TypeParam \in Types
  /\ \E n \in 0..MaxLen, with_data \in BOOLEAN :
       LET heap == << create(1, n) >>
           m == IF with_data THEN make_shared_vector(heap, 1)
                ELSE [heap |-> heap, ptr |-> 0]
       IN  /\ o_heap = m.heap /\ o_h = m.ptr
           /\ o_expect = IF with_data THEN Owned(create(1, n)) ELSE NULL
  /\ o_out = << [data |-> 7, check |-> -7] >>
  /\ o_outcount \in OutcountsBefore
  /\ o_status \in StatusesBefore
  /\ o_inbox = IF mpi_enabled
               THEN << MessageOf(TypeParam, MaxLen), MessageOf(TypeParam, 0) >>
               ELSE << >>
  /\ o_stage = "run" /\ o_ret = "none" /\ o_infos = 0 /\ o_exit = "ok"
  /\ o_call = [op |-> "none", value |-> << >>]
  /\ o_pre = Held(OwnState)

\* data = v in the caller
OCallerChange(v) ==
  /\ o_stage = "run" /\ v # o_heap[1]
  /\ o_heap' = [o_heap EXCEPT ![1] = v]
  /\ o_call' = [op |-> "caller_change", value |-> << >>]
  /\ o_pre' = Held(OwnState)
  /\ UNCHANGED << debug_build, TypeParam, cvars, rvars, xvars, wvars, tvars,
                  o_stage, o_h, o_expect, o_out, o_outcount, o_status, o_ret,
                  o_infos, o_inbox, o_exit >>

\* handler.get_data (out)
OGetData ==
  /\ o_stage = "run"
  /\ o_out' = get_data(o_heap, o_h, o_out)
  /\ o_call' = [op |-> "get_data", value |-> << >>]
  /\ o_pre' = Held(OwnState)
  /\ UNCHANGED << debug_build, TypeParam, cvars, rvars, xvars, wvars, tvars,
                  o_stage, o_heap, o_h, o_expect, o_outcount, o_status, o_ret,
                  o_infos, o_inbox, o_exit >>

\* std::vector<char> buffer (handler.buffer_size (comm)); int pos = 0;
\* handler.pack_vector_prefix (buffer.data (), buffer.size (), pos, comm):
\* value is the buffer after the call. Without a vector the call dereferences
\* a null pointer and the scenario is not followed further.
OPack ==
  /\ o_stage = "run"
  /\ o_pre' = Held(OwnState)
  /\ IF o_h = 0
     THEN /\ o_exit' \in {"segfault", "undefined"}
          /\ o_stage' = "stopped"
          /\ o_call' = [op |-> "pack_vector_prefix", value |-> << >>]
     ELSE \E p \in { send_pack(TypeParam, Deref(o_heap, o_h)) } :
            /\ o_exit' = p.exit
            /\ o_stage' = IF p.exit = "ok" THEN "run" ELSE "stopped"
            /\ o_call' = [op |-> "pack_vector_prefix", value |-> p.buffer]
  /\ UNCHANGED << debug_build, TypeParam, cvars, rvars, xvars, wvars, tvars,
                  o_heap, o_h, o_expect, o_out, o_outcount, o_status, o_ret,
                  o_infos, o_inbox >>

\* int pos = 0; handler.unpack_vector_prefix (buffer, num_bytes, pos,
\* outcount, comm) on the buffer a handler owning create (2, k) packed.
OUnpack(k) ==
  /\ o_stage = "run"
  /\ o_pre' = Held(OwnState)
  /\ \E buffer \in { MessageOf(TypeParam, k).bytes } :
       \E r \in { unpack_vector_prefix(TypeParam, Deref(o_heap, o_h), buffer,
                                       Len(buffer), 0, o_outcount,
                                       debug_build) } :
         \E m \in { Store(o_heap, o_h, r.m_data) } :
           /\ o_heap' = m.heap /\ o_h' = m.ptr
           /\ o_expect' = r.m_data
           /\ o_outcount' = r.outcount
           /\ o_exit' = r.exit
           /\ o_stage' = IF r.exit = "ok" THEN "run" ELSE "stopped"
  /\ o_call' = [op |-> "unpack_vector_prefix", value |-> << >>]
  /\ UNCHANGED << debug_build, TypeParam, cvars, rvars, xvars, wvars, tvars,
                  o_out, o_status, o_ret, o_infos, o_inbox >>

\* handler.send (dest, tag, comm): value is the buffer handed to sc_MPI_Send.
OSend ==
  /\ o_stage = "run" /\ o_infos < MaxInfos
  /\ o_pre' = Held(OwnState)
  /\ IF ~mpi_enabled
     THEN LET st == without_mpi(OwnState)
          IN  /\ o_heap' = st.heap /\ o_h' = st.h /\ o_out' = st.out
              /\ o_outcount' = st.outcount /\ o_status' = st.status
              /\ o_infos' = st.infos /\ o_ret' = st.ret
              /\ o_call' = [op |-> "send", value |-> << >>]
              /\ UNCHANGED << o_stage, o_exit >>
     ELSE /\ UNCHANGED << o_heap, o_h, o_out, o_outcount, o_status, o_infos >>
          /\ IF o_h = 0
             THEN /\ o_exit' \in {"segfault", "undefined"}
                  /\ o_stage' = "stopped"
                  /\ o_call' = [op |-> "send", value |-> << >>]
                  /\ UNCHANGED o_ret
             ELSE \E p \in { send_pack(TypeParam, Deref(o_heap, o_h)) },
                     st \in TransportStatuses :
                    /\ o_call' = [op |-> "send", value |-> p.buffer]
                    /\ IF p.exit # "ok" \/ st # "sc_MPI_SUCCESS"
                       THEN /\ o_exit' = "abort_mpi"
                            /\ o_stage' = "stopped"
                            /\ UNCHANGED o_ret
                       ELSE /\ o_ret' = st
                            /\ UNCHANGED << o_stage, o_exit >>
  /\ UNCHANGED << debug_build, TypeParam, cvars, rvars, xvars, wvars, tvars,
                  o_expect, o_inbox >>

\* handler.recv (source, tag, comm, &status, outcount): probe (which blocks
\* until a message is pending), get count, buffer, receive, unpack.
ORecv ==
  /\ o_stage = "run" /\ o_infos < MaxInfos
  /\ o_pre' = Held(OwnState)
  /\ o_call' = [op |-> "recv", value |-> << >>]
  /\ IF ~mpi_enabled
     THEN LET st == without_mpi(OwnState)
          IN  /\ o_heap' = st.heap /\ o_h' = st.h /\ o_out' = st.out
              /\ o_outcount' = st.outcount /\ o_status' = st.status
              /\ o_infos' = st.infos /\ o_ret' = st.ret
              /\ UNCHANGED << o_stage, o_exit, o_expect, o_inbox >>
     ELSE /\ HasMatch(o_inbox, RingTag)
          /\ UNCHANGED << o_out, o_infos >>
          /\ \E st \in TransportStatuses :
               IF st # "sc_MPI_SUCCESS"
               THEN /\ o_exit' = "abort_mpi" /\ o_stage' = "stopped"
                    /\ UNCHANGED << o_heap, o_h, o_expect, o_outcount,
                                    o_status, o_ret, o_inbox >>
               ELSE \E i \in { FirstMatch(o_inbox, RingTag) } :
                    \E envelope \in { [source |-> o_inbox[i].source,
                                        tag |-> o_inbox[i].tag,
                                        count |-> Len(o_inbox[i].bytes),
                                        round |-> o_inbox[i].round] } :
                    \E r \in { unpack_vector_prefix(TypeParam,
                                  Deref(o_heap, o_h), o_inbox[i].bytes,
                                  sc_MPI_Get_count(envelope), 0, o_outcount,
                                  debug_build) } :
                    \E m \in { Store(o_heap, o_h, r.m_data) } :
                      /\ o_inbox' = RemoveAt(o_inbox, i)
                      /\ o_status' = envelope
                      /\ o_heap' = m.heap /\ o_h' = m.ptr
                      /\ o_expect' = r.m_data
                      /\ o_outcount' = r.outcount
                      /\ o_exit' = r.exit
                      /\ o_stage' = IF r.exit = "ok" THEN "run" ELSE "stopped"
                      /\ o_ret' = IF r.exit = "ok" THEN st ELSE o_ret
  /\ UNCHANGED << debug_build, TypeParam, cvars, rvars, xvars, wvars, tvars >>

NextOwn ==
  \/ \E v \in CallerVectors : OCallerChange(v)
  \/ OGetData
  \/ OPack
  \/ \E k \in UnpackLengths : OUnpack(k)
  \/ OSend
  \/ ORecv

SpecOwn == InitOwn /\ [][NextOwn]_vars

\* ------------------------------------------------ vertex to tree lookup
\* t8_cmesh_vertex_conn_vertex_to_tree_c: global vertex id -> list of
\* (tree id, tree vertex) pairs, built with add_vertex_to_tree and closed
\* with commit, or built by the constructor from a tree-to-vertex list.

MaxTrees == 2
MaxAdds == 3

\* Every tree of the cmesh is a line: t8_eclass_num_vertices[T8_ECLASS_LINE].
t8_eclass_num_vertices == 2

\* The global vertex ids of the cmesh; they need not be contiguous.
GlobalIds == { 3, 7 }

\* The cmeshes of the scenario: local trees and ghosts, committed.
Cmeshes ==
  { [num_local_trees |-> l, num_ghosts |-> g, committed |-> TRUE] :
      << l, g >> \in { lg \in (1..MaxTrees) \X (0..1) : lg[1] + lg[2] <= MaxTrees } }

num_local_trees_and_ghosts(cmesh) == cmesh.num_local_trees + cmesh.num_ghosts

t8_cmesh_treeid_is_local_tree(cmesh, ltreeid) ==
  0 <= ltreeid /\ ltreeid < cmesh.num_local_trees

t8_cmesh_treeid_is_ghost(cmesh, ltreeid) ==
  /\ cmesh.num_local_trees <= ltreeid
  /\ ltreeid < num_local_trees_and_ghosts(cmesh)

\* The tree-to-vertex lists of a cmesh: tree -> tree vertex -> global id.
TreeToVertex(cmesh) ==
  [ 0..(num_local_trees_and_ghosts(cmesh) - 1) ->
      [ 0..(t8_eclass_num_vertices - 1) -> GlobalIds ] ]

\* The object after the default constructor.
DefaultConstructed ==
  [state |-> "INITIALIZED", vertex_to_tree |-> << >>, exit |-> "ok"]

is_committed(obj) == obj.state = "COMMITTED"

\* tree_vertex_pair
tree_vertex_pair(ltreeid, tree_vertex) ==
  [first |-> ltreeid, second |-> tree_vertex]

\* vertex_to_tree[global_vertex_id].push_back (pair)
push_back_pair(vertex_to_tree, global_vertex_id, pair) ==
  [ id \in (DOMAIN vertex_to_tree) \cup { global_vertex_id } |->
      IF id = global_vertex_id
      THEN Append(IF id \in DOMAIN vertex_to_tree
                  THEN vertex_to_tree[id] ELSE << >>, pair)
      ELSE vertex_to_tree[id] ]

add_vertex_to_tree(obj, cmesh, global_vertex_id, ltreeid, tree_vertex, debug) ==
  IF \/ T8_ASSERT_fails(debug, ~is_committed(obj))
     \/ T8_ASSERT_fails(debug, 0 <= global_vertex_id)
     \/ T8_ASSERT_fails(debug, \/ t8_cmesh_treeid_is_local_tree(cmesh, ltreeid)
                               \/ t8_cmesh_treeid_is_ghost(cmesh, ltreeid))
     \/ T8_ASSERT_fails(debug, cmesh.committed)
     \/ T8_ASSERT_fails(debug, /\ 0 <= tree_vertex
                               /\ tree_vertex < t8_eclass_num_vertices)
  THEN [obj EXCEPT !.exit = "assert"]
  ELSE IF obj.state # "INITIALIZED"
  THEN [obj EXCEPT !.exit = "abort"]
  ELSE [obj EXCEPT !.vertex_to_tree =
                     push_back_pair(obj.vertex_to_tree, global_vertex_id,
                                    tree_vertex_pair(ltreeid, tree_vertex)),
                   !.exit = "ok"]

\* The comparator that orders pairs by tree id alone.
t8_cmesh_tree_vertex_pair_compare_tree_only(pair_a, pair_b) == pair_a.first < pair_b.first

t8_cmesh_tree_vertex_pair_compare(pair_a, pair_b) ==
  IF pair_a.first = pair_b.first
  THEN pair_a.second < pair_b.second
  ELSE pair_a.first < pair_b.first

\* std::sort with the comparator: the pairs of the list in ascending order.
RECURSIVE SortInsert(_, _)
SortInsert(sorted, pair) ==
  IF sorted = << >> THEN << pair >>
  ELSE IF t8_cmesh_tree_vertex_pair_compare(pair, Head(sorted))
  THEN << pair >> \o sorted
  ELSE << Head(sorted) >> \o SortInsert(Tail(sorted), pair)

RECURSIVE std_sort(_)
std_sort(list) ==
  IF list = << >> THEN << >>
  ELSE SortInsert(std_sort(SubSeq(list, 1, Len(list) - 1)), list[Len(list)])

sort_list_by_tree_id(obj, debug) ==
  IF T8_ASSERT_fails(debug, ~is_committed(obj))
  THEN [obj EXCEPT !.exit = "assert"]
  ELSE IF \E id \in DOMAIN obj.vertex_to_tree :
            T8_ASSERT_fails(debug, Len(obj.vertex_to_tree[id]) > 0)
  THEN [obj EXCEPT !.exit = "assert"]
  ELSE [obj EXCEPT !.vertex_to_tree =
                     [ id \in DOMAIN obj.vertex_to_tree |->
                         std_sort(obj.vertex_to_tree[id]) ],
                   !.exit = "ok"]

\* All pairs stored in vertex_to_tree, with the global id they belong to.
StoredPairs(vertex_to_tree) ==
  UNION { { << id, i >> : i \in 1..Len(vertex_to_tree[id]) } :
            id \in DOMAIN vertex_to_tree }

\* vertex_counts[itree] after the count down over all stored pairs.
vertex_counts(vertex_to_tree, itree) ==
  t8_eclass_num_vertices
    - Cardinality({ e \in StoredPairs(vertex_to_tree) :
                      vertex_to_tree[e[1]][e[2]].first = itree })

\* [exit, value] of contains_all_vertices.
contains_all_vertices(obj, cmesh, debug) ==
  LET n == num_local_trees_and_ghosts(cmesh)
      m == obj.vertex_to_tree
      pairs == { m[e[1]][e[2]] : e \in StoredPairs(m) }
  IN  IF T8_ASSERT_fails(debug, is_committed(obj))
      THEN [exit |-> "assert", value |-> 0]
      ELSE IF \E p \in pairs :
                \/ ~(0 <= p.first /\ p.first < n)
                \/ ~(0 <= p.second /\ p.second < t8_eclass_num_vertices)
      THEN [exit |-> "abort", value |-> 0]
      ELSE IF \E itree \in 0..(n - 1) :
                T8_ASSERT_fails(debug, vertex_counts(m, itree) >= 0)
      THEN [exit |-> "assert", value |-> 0]
      ELSE [exit |-> "ok",
            value |-> IF \A itree \in 0..(n - 1) : vertex_counts(m, itree) = 0
                      THEN 1 ELSE 0]

commit(obj, cmesh, debug) ==
  LET sorted == sort_list_by_tree_id(obj, debug)
      committed == [sorted EXCEPT !.state = "COMMITTED"]
      all == contains_all_vertices(committed, cmesh, debug)
  IN  IF sorted.exit # "ok" THEN sorted
      ELSE IF ~debug THEN committed
      ELSE IF all.exit # "ok" THEN [committed EXCEPT !.exit = all.exit]
      ELSE IF all.value = 0 THEN [committed EXCEPT !.exit = "assert"]
      ELSE committed

\* [exit, value] of get_tree_list_of_vertex.
get_tree_list_of_vertex(obj, global_vertex_id, debug) ==
  IF \/ T8_ASSERT_fails(debug, is_committed(obj))
     \/ T8_ASSERT_fails(debug, 0 <= global_vertex_id)
  THEN [exit |-> "assert", value |-> << >>]
  ELSE IF global_vertex_id \notin DOMAIN obj.vertex_to_tree
  THEN [exit |-> "abort", value |-> << >>]
  ELSE [exit |-> "ok", value |-> obj.vertex_to_tree[global_vertex_id]]

\* The constructor's loop from tree itree, vertex ivertex onwards.
RECURSIVE AddFromTtv(_, _, _, _, _, _)
AddFromTtv(obj, cmesh, ttv, itree, ivertex, debug) ==
  IF itree >= num_local_trees_and_ghosts(cmesh) \/ obj.exit # "ok" THEN obj
  ELSE IF ivertex >= t8_eclass_num_vertices
  THEN AddFromTtv(obj, cmesh, ttv, itree + 1, 0, debug)
  ELSE AddFromTtv(add_vertex_to_tree(obj, cmesh, ttv[itree][ivertex], itree,
                                     ivertex, debug),
                  cmesh, ttv, itree, ivertex + 1, debug)

\* The constructor from an existing tree-to-vertex list.
ConstructedFromTtv(cmesh, ttv, debug) ==
  LET added == AddFromTtv(DefaultConstructed, cmesh, ttv, 0, 0, debug)
  IN  IF added.exit # "ok" THEN added
      ELSE [added EXCEPT !.state = "COMMITTED"]

\* The record of a call: what was called, with what, in which state.
VttCall(op, arg, result, value, obj) ==
  [op |-> op, arg |-> arg, result |-> result, value |-> value,
   state |-> obj.state]

VttObj == [state |-> v_state, vertex_to_tree |-> v_vertex_to_tree, exit |-> v_exit]

\* The object's fields after a call, and the vertex_to_tree recorded when
\* the state becomes COMMITTED.
VttAfter(obj) ==
  /\ v_state' = obj.state
  /\ v_vertex_to_tree' = obj.vertex_to_tree
  /\ v_exit' = obj.exit
  /\ v_stage' = IF obj.exit = "ok" THEN "run" ELSE "stopped"
  /\ v_committed' = IF obj.state = "COMMITTED" /\ ~v_committed.set
                    THEN [set |-> TRUE, map |-> obj.vertex_to_tree]
                    ELSE v_committed

VttRest == << TypeParam, cvars, rvars, xvars, wvars, ovars >>

InitVtt ==
  /\ debug_build \in BOOLEAN /\ TypeParam = "int"
  /\ CodecIdle /\ c_src = NULL /\ c_dst = NULL
  /\ RingIdle /\ BatchIdle /\ s_val = << >> /\ s_recv = << >> /\ x_strays = 0
  /\ WidthIdle /\ OwnIdle
  /\ v_cmesh \in Cmeshes
  /\ v_adds = 0 /\ v_stage = "run"
  /\ \E obj \in { DefaultConstructed } \cup
                { ConstructedFromTtv(v_cmesh, ttv, debug_build) :
                    ttv \in TreeToVertex(v_cmesh) } :
       /\ v_state = obj.state
       /\ v_vertex_to_tree = obj.vertex_to_tree
       /\ v_exit = obj.exit
       /\ v_call = VttCall("constructor", 0, 0, << >>, DefaultConstructed)
       /\ v_committed = IF obj.state = "COMMITTED"
                        THEN [set |-> TRUE, map |-> obj.vertex_to_tree]
                        ELSE NotCommitted

VAddVertexToTree(global_vertex_id, ltreeid, tree_vertex) ==
  /\ v_stage = "run" /\ v_adds < MaxAdds
  /\ \E obj \in { add_vertex_to_tree(VttObj, v_cmesh, global_vertex_id,
                                     ltreeid, tree_vertex, debug_build) } :
       VttAfter(obj)
  /\ v_call' = VttCall("add_vertex_to_tree", global_vertex_id, 0,
                       << tree_vertex_pair(ltreeid, tree_vertex) >>, VttObj)
  /\ v_adds' = v_adds + 1
  /\ UNCHANGED << debug_build, VttRest, v_cmesh >>

VCommit ==
  /\ v_stage = "run"
  /\ \E obj \in { commit(VttObj, v_cmesh, debug_build) } : VttAfter(obj)
  /\ v_call' = VttCall("commit", 0, 0, << >>, VttObj)
  /\ UNCHANGED << debug_build, VttRest, v_cmesh, v_adds >>

VGetTreeListOfVertex(global_vertex_id) ==
  /\ v_stage = "run"
  /\ \E r \in { get_tree_list_of_vertex(VttObj, global_vertex_id, debug_build) } :
       /\ v_exit' = r.exit
       /\ v_stage' = IF r.exit = "ok" THEN "run" ELSE "stopped"
       /\ v_call' = VttCall("get_tree_list_of_vertex", global_vertex_id, 0,
                            r.value, VttObj)
  /\ UNCHANGED << debug_build, VttRest, v_cmesh, v_state, v_vertex_to_tree,
                  v_committed, v_adds >>

VIsCommitted ==
  /\ v_stage = "run"
  /\ v_exit' = "ok"
  /\ v_call' = VttCall("is_committed", 0,
                       IF is_committed(VttObj) THEN 1 ELSE 0, << >>, VttObj)
  /\ UNCHANGED << debug_build, VttRest, v_cmesh, v_stage, v_state,
                  v_vertex_to_tree, v_committed, v_adds >>

NextVtt ==
  \/ \E global_vertex_id \in GlobalIds,
        ltreeid \in 0..(num_local_trees_and_ghosts(v_cmesh) - 1),
        tree_vertex \in 0..(t8_eclass_num_vertices - 1) :
       VAddVertexToTree(global_vertex_id, ltreeid, tree_vertex)
  \/ VCommit
  \/ \E global_vertex_id \in GlobalIds : VGetTreeListOfVertex(global_vertex_id)
  \/ VIsCommitted

SpecVtt == InitVtt /\ [][NextVtt]_vars


\* ------------------------------------------------ claims on pack / unpack
\* The count prefix the buffer carries.
WireCount == DecodeInt([i \in 1..IntPackSize |-> c_buf[i]])

\* Element i (from 1) of the wire format: the bytes at the fixed offset
\* count prefix + (i - 1) * element size.
WireElem(i) ==
  LET single == single_size(TypeParam, DefaultElem)
      off == IntPackSize + (i - 1) * single
      chk == off + single - IntPackSize
  IN  [data  |-> IF TypeParam = "int"
                 THEN DecodeInt([j \in 1..IntPackSize |-> c_buf[off + j]])
                 ELSE DecodeDouble([j \in 1..DoublePackSize |-> c_buf[off + j]]),
       check |-> DecodeInt([j \in 1..IntPackSize |-> c_buf[chk + j]])]

\* C1: packing a collection c of N values into a buffer of buffer_size bytes
\* from cursor 0 and unpacking that buffer from cursor 0 (either handler
\* variant on either side) returns the count N and a collection equal to c,
\* element by element, and both cursors end at buffer_size.
C1_RoundTrip ==
  (c_stage = "unpacked" /\ ~c_tampered /\ c_src.owns) =>
    /\ c_exit = "ok"
    /\ c_outcount = Len(c_src.vec)
    /\ c_dst.owns /\ Len(c_dst.vec) = Len(c_src.vec)
    /\ \A i \in 1..Len(c_src.vec) : c_dst.vec[i] = c_src.vec[i]
    /\ Len(c_buf) = buffer_size(TypeParam, c_src)
    /\ c_ppos = Len(c_buf) /\ c_upos = Len(c_buf)

C1_Witness ==
  /\ c_stage = "unpacked" /\ ~c_tampered /\ c_exit = "ok"
  /\ c_src.owns /\ Len(c_src.vec) = MaxLen
  /\ c_src.vec[1] # c_src.vec[2]
  /\ c_prev.owns /\ c_prev # c_src /\ c_dst = c_src

\* C3: buffer_size returns count prefix size + n * element size for the n
\* owned elements (n = 0 without owned data: the prefix size alone), and
\* t8_buffer_size (N) returns count prefix size + N * element size.
C3_SizeAdditivity ==
  /\ c_op = "buffer_size" =>
       c_size = IntPackSize
                + (IF c_src.owns THEN Len(c_src.vec) ELSE 0)
                  * single_size(TypeParam, DefaultElem)
  /\ c_op = "t8_buffer_size" =>
       c_size = IntPackSize + c_num * single_size(TypeParam, DefaultElem)
  /\ (c_op = "buffer_size" /\ (~c_src.owns \/ c_src.vec = << >>)) =>
       c_size = IntPackSize

C3_Witness ==
  /\ c_op = "buffer_size" /\ c_src.owns /\ Len(c_src.vec) = 2
  /\ c_size = IntPackSize + 2 * single_size(TypeParam, DefaultElem)

\* C4: an unpack that reads a negative count prefix is rejected by the count
\* check as a fatal error in every build; the count never reaches the resize
\* as an unsigned length.
C4_NegativeCountRejected ==
  (c_stage = "unpacked" /\ WireCount < 0) => c_exit = "abort_assert"

\* C5: after a successful unpack, whatever the handler held before, it owns
\* exactly as many elements as the count prefix says, the returned count is
\* that length, and element i is the i-th element of the wire.
C5_DecodeReplaces ==
  (c_stage = "unpacked" /\ c_exit = "ok") =>
    /\ c_dst.owns
    /\ Len(c_dst.vec) = WireCount
    /\ c_outcount = WireCount
    /\ \A i \in 1..WireCount : c_dst.vec[i] = WireElem(i)

C5_Witness ==
  /\ c_stage = "unpacked" /\ c_exit = "ok" /\ c_op = "unpack_vector_prefix"
  /\ c_prev.owns /\ Len(c_prev.vec) > WireCount /\ WireCount >= 1
  /\ c_prev.vec[1] # c_dst.vec[1]
  /\ Len(c_dst.vec) = WireCount

\* ------------------------------------------------ claims on send / recv
\* The operations of a sequence of call steps.
Ops(tr) == [i \in 1..Len(tr) |-> tr[i].op]

\* The steps that are calls of the transport.
TransportOps ==
  { "sc_MPI_Send", "sc_MPI_Probe", "sc_MPI_Get_count", "sc_MPI_Recv" }

\* The steps of one complete recv call.
RecvOrder ==
  << "sc_MPI_Probe", "sc_MPI_Get_count", "buffer", "sc_MPI_Recv",
     "unpack_vector_prefix" >>

\* Sequence a is a prefix of sequence b.
IsPrefix(a, b) ==
  Len(a) <= Len(b) /\ \A i \in 1..Len(a) : a[i] = b[i]

\* The int held by the four bytes of b that follow offset off.
IntAt(b, off) == DecodeInt([j \in 1..IntPackSize |-> b[off + j]])

\* C2: in the ring, the collection rank r has received when its recv of
\* round k returns has length k and equals, element by element, the
\* collection rank (r - 1 + P) mod P sent in round k, and the message it
\* took is that rank's message of round k.
C2_RingExchange ==
  \A r \in Ranks :
    (pc[r] = "check" /\ ret[r] = "sc_MPI_SUCCESS") =>
      LET k == r_num_data[r]
          from == (r + mpisize - 1) % mpisize
      IN  /\ h_recv[r].owns
          /\ Len(h_recv[r].vec) = k
          /\ r_outcount[r] = k
          /\ \A i \in 1..k : h_recv[r].vec[i] = create(from, k)[i]
          /\ recvd[r].source = from /\ recvd[r].round = k

C2_Witness ==
  \E r \in Ranks :
    /\ mpisize > 1 /\ pc[r] = "check" /\ ret[r] = "sc_MPI_SUCCESS"
    /\ r_num_data[r] = MaxRounds
    /\ Len(h_recv[r].vec) = MaxRounds
    /\ h_recv[r].vec # h_send[r].vec

\* C6: when a transport call of send or recv returns a status other than
\* success, the process is not aborted and send / recv returns that status.
C6_FailurePropagated ==
  \A r \in Ranks :
    \A i \in 1..Len(calls[r]) :
      (calls[r][i].op \in TransportOps /\ calls[r][i].ret # "sc_MPI_SUCCESS") =>
        (~aborted /\ ret[r] = calls[r][i].ret)

\* C7: without T8_ENABLE_MPI no call of send or recv issues a step (no pack,
\* send, probe, receive or unpack) and no message exists; each call emits one
\* diagnostic and returns sc_MPI_ERR_OTHER, which is not the success status.
C7_TransportUnavailable ==
  ~mpi_enabled =>
    \A r \in Ranks :
      /\ calls[r] = << >>
      /\ \A d \in Ranks : chan[r][d] = << >>
      /\ pc[r] \in {"create", "send", "recv", "check", "done"}
      /\ (pc[r] \in {"recv", "check", "done"}) =>
           /\ ret[r] = "sc_MPI_ERR_OTHER"
           /\ ret[r] # "sc_MPI_SUCCESS"
           /\ infos[r] = 1

C7_Witness ==
  /\ ~mpi_enabled
  /\ \E r \in Ranks :
       /\ pc[r] = "check" /\ r_num_data[r] = 2
       /\ ret[r] = "sc_MPI_ERR_OTHER" /\ infos[r] = 1 /\ calls[r] = << >>

\* C8: with the transport compiled in, a call of send on a handler owning n
\* elements has issued exactly one sc_MPI_Send, to the given destination
\* with the given tag, of exactly buffer_size bytes: the count n followed by
\* the n owned elements in order.
C8_SendProtocol ==
  mpi_enabled =>
    \A r \in Ranks :
      (pc[r] \in {"send_wait", "recv"}) =>
        /\ Len(calls[r]) = 1
        /\ LET c == calls[r][1]
               n == Len(h_send[r].vec)
           IN  /\ c.op = "sc_MPI_Send"
               /\ c.peer = (r + 1) % mpisize
               /\ c.tag = RingTag
               /\ c.len = IntPackSize + n * single_size(TypeParam, DefaultElem)
               /\ Len(c.bytes) = c.len
               /\ IntAt(c.bytes, 0) = n
               /\ \A i \in 1..n :
                    LET off == IntPackSize + (i - 1) * single_size(TypeParam, DefaultElem)
                        chk == off + single_size(TypeParam, DefaultElem)
                                 - IntPackSize
                    IN  /\ IntAt(c.bytes, off) = h_send[r].vec[i].data
                        /\ IntAt(c.bytes, chk) = h_send[r].vec[i].check
               /\ \A d \in Ranks : \A j \in 1..Len(chan[r][d]) :
                    /\ d = c.peer
                    /\ chan[r][d][j].tag = c.tag
                    /\ chan[r][d][j].round = r_num_data[r] =>
                         chan[r][d][j].bytes = c.bytes

C8_Witness ==
  /\ mpi_enabled
  /\ \E r \in Ranks :
       /\ pc[r] = "recv" /\ r_num_data[r] = MaxRounds
       /\ Len(calls[r]) = 1 /\ calls[r][1].op = "sc_MPI_Send"
       /\ calls[r][1].len = t8_buffer_size(TypeParam, MaxRounds)

\* C9: a recv call issues its steps in the order probe, get count, buffer
\* allocation, receive, unpack, all on the same source and tag; a returned
\* call has issued each exactly once; the owned collection is as it was at
\* the start of the call until the receive has been issued.
C9_RecvOrder ==
  mpi_enabled =>
    \A r \in Ranks :
      (pc[r] \in {"sc_MPI_Probe", "sc_MPI_Get_count", "sc_MPI_Recv",
                  "unpack_vector_prefix", "check"}) =>
        /\ IsPrefix(Ops(calls[r]), RecvOrder)
        /\ pc[r] = "check" => Ops(calls[r]) = RecvOrder
        /\ \A i \in 1..Len(calls[r]) :
             /\ calls[r][i].peer = (r + mpisize - 1) % mpisize
             /\ calls[r][i].tag = RingTag
        /\ (\A i \in 1..Len(calls[r]) : calls[r][i].op # "sc_MPI_Recv") =>
             h_recv[r] = h_before[r]

C9_Witness ==
  /\ mpi_enabled
  /\ \E r \in Ranks :
       /\ pc[r] = "check" /\ Ops(calls[r]) = RecvOrder
       /\ h_before[r].owns /\ h_recv[r] # h_before[r]

\* C10: the message the receive of recv takes is the one its probe reported,
\* and the receive buffer has exactly the byte length of that message, also
\* when several messages of different lengths are pending.
C10_RecvTakesProbed ==
  \A r \in Ranks :
    LET q == chan[(r + mpisize - 1) % mpisize][r]
    IN  /\ (pc[r] = "sc_MPI_Recv" /\ ~aborted) =>
             /\ HasMatch(q, RingTag)
             /\ LET m == q[FirstMatch(q, RingTag)]
                IN  /\ m.source = r_status[r].source
                    /\ m.round = r_status[r].round
                    /\ Len(m.bytes) = r_num_bytes[r]
                    /\ Len(r_buffer[r]) = Len(m.bytes)
        /\ (pc[r] = "unpack_vector_prefix") =>
             /\ recvd[r].count = r_num_bytes[r]
             /\ Len(r_buffer[r]) = recvd[r].count
             /\ calls[r][Len(calls[r])].bytes = r_buffer[r]

C10_Witness ==
  \E r \in Ranks :
    LET q == chan[(r + mpisize - 1) % mpisize][r]
    IN  /\ pc[r] = "sc_MPI_Recv" /\ ~aborted
        /\ Len(q) >= 2
        /\ Len(q[1].bytes) # Len(q[2].bytes)
        /\ r_num_bytes[r] = Len(q[1].bytes)

\* ------------------------------------------- claims on manual batching
\* The element of type T held by the bytes of b that follow offset off.
ElemAt(T, b, off) ==
  [data  |-> IF T = "int" THEN IntAt(b, off)
             ELSE DecodeDouble([j \in 1..DoublePackSize |-> b[off + j]]),
   check |-> IntAt(b, off + single_size(T, DefaultElem) - IntPackSize)]

\* The last call of the scenario was a pack call.
PackCall == b_call.op \in {"pack_vector_prefix", "t8_data_pack_vector"}

\* The bytes between the cursor and the end of the buffer handed to the last
\* pack call.
Capacity == Len(b_prebuf) - b_prepos

\* The bytes the collection of the last pack call needs.
Needed == buffer_size(b_obj0[b_call.k].T, b_obj0[b_call.k].m_data)

\* The last call of the scenario was a pack call that returned, on a buffer
\* with room for the collection.
Packed == PackCall /\ b_exit = "ok" /\ Capacity >= Needed

\* C11: a pack call handed cursor c and a buffer with enough room writes
\* the count n of owned elements at c and element i (from 0) in the
\* encoded_size bytes at c + count prefix size + i * encoded_size, in the
\* original order; the cursor ends right after the last element and no other
\* byte of the buffer changes.
C11_WireLayout ==
  Packed =>
    LET obj == b_obj0[b_call.k]
        n == Len(obj.m_data.vec)
        single == single_size(obj.T, DefaultElem)
        c == b_prepos
    IN  /\ IntAt(b_buf, c) = n
        /\ \A i \in 0..(n - 1) :
             ElemAt(obj.T, b_buf, c + IntPackSize + i * single)
               = obj.m_data.vec[i + 1]
        /\ b_pos = c + IntPackSize + n * single
        /\ Len(b_buf) = Len(b_prebuf)
        /\ \A j \in 1..Len(b_buf) :
             (j <= c \/ j > b_pos) => b_buf[j] = b_prebuf[j]

C11_Witness ==
  /\ Packed /\ b_call.op = "pack_vector_prefix" /\ b_call.k = 2
  /\ b_prepos > 0 /\ b_pos < Len(b_buf)
  /\ b_obj0[2].T = "double" /\ Len(b_obj0[2].m_data.vec) = MaxLen
  /\ ElemAt("double", b_buf, b_prepos + IntPackSize)
       # ElemAt("double", b_buf, b_prepos + IntPackSize
                                + single_size("double", DefaultElem))

\* C12: a handler constructed without data behaves as a collection of zero
\* elements: buffer_size returns the count prefix size, and pack_vector_prefix
\* returns having written a count prefix of 0 and advanced the cursor by the
\* prefix size.
C12_EmptyHandler ==
  ~c_src.owns =>
    /\ c_op = "buffer_size" => c_size = IntPackSize
    /\ c_op = "pack_vector_prefix" =>
         /\ c_exit = "ok"
         /\ c_buf = EncodeInt(0)
         /\ c_ppos = IntPackSize

\* buffer_size of the k-th packing handler as constructed.
SizeOf(k) == buffer_size(b_obj0[k].T, b_obj0[k].m_data)

\* The two handlers pack into a buffer of exactly the sum of their sizes,
\* through pack_vector_prefix.
ExactBatch ==
  /\ b_stage # "idle" /\ b_call.op # "t8_data_pack_vector"
  /\ Len(b_buf) = SizeOf(1) + SizeOf(2)

\* C13: packing H1 then H2 into one buffer of buffer_size (H1) + buffer_size
\* (H2) bytes with one cursor, then unpacking in the same order with a cursor
\* reset to 0, fails in no call, advances the cursor in each call by that
\* handler's buffer_size, leaves the bytes of H1 as the first call wrote them
\* and recovers both collections and their counts.
C13_BackToBack ==
  ExactBatch =>
    /\ b_stage # "stopped"
    /\ Len(b_marks) >= 1 => b_marks[1] = SizeOf(1)
    /\ Len(b_marks) >= 2 =>
         /\ b_marks[2] = SizeOf(1) + SizeOf(2)
         /\ IntAt(b_buf, 0) = Len(b_obj0[1].m_data.vec)
         /\ \A i \in 1..Len(b_obj0[1].m_data.vec) :
              ElemAt(b_obj0[1].T, b_buf,
                     IntPackSize
                     + (i - 1) * single_size(b_obj0[1].T, DefaultElem))
                = b_obj0[1].m_data.vec[i]
    /\ Len(b_marks) >= 3 =>
         /\ b_marks[3] = SizeOf(1)
         /\ b_counts[1] = Len(b_obj0[1].m_data.vec)
         /\ b_dst[1].m_data = b_obj0[1].m_data
    /\ Len(b_marks) >= 4 =>
         /\ b_marks[4] = SizeOf(1) + SizeOf(2)
         /\ b_counts[2] = Len(b_obj0[2].m_data.vec)
         /\ b_dst[2].m_data = b_obj0[2].m_data

C13_Witness ==
  /\ ExactBatch /\ b_stage = "done" /\ Len(b_marks) = 4
  /\ b_obj0[1].T # b_obj0[2].T
  /\ Len(b_obj0[1].m_data.vec) >= 1 /\ Len(b_obj0[2].m_data.vec) >= 2
  /\ b_dst[2].m_data = b_obj0[2].m_data
  /\ b_dst[1].m_data # b_dst[2].m_data

\* C14: a pack call returns normally whenever the buffer has at least
\* buffer_size bytes from the cursor on (also when it has more), and it is a
\* fatal failure whenever the buffer has fewer.
C14_EncodePrecondition ==
  PackCall =>
    /\ Capacity >= Needed => b_exit = "ok"
    /\ Capacity < Needed => b_exit \in {"abort_mpi", "abort_assert"}

Object(k) == IF k <= 2 THEN b_obj[k] ELSE b_dst[k - 2]

C17_SingleRoundTrip ==
  /\ \A s \in Ranks : \A d \in Ranks : \A i \in 1..Len(chan[s][d]) :
       LET m == chan[s][d][i]
           u == single_unpack(TypeParam, m.bytes, Len(m.bytes), 0, DefaultElem)
       IN  /\ u.exit = "ok"
           /\ u.item.data = s_val[s].data
           /\ u.item.check = s_val[s].check
  /\ \A r \in Ranks :
       pc[r] = "s_check" =>
         /\ s_recv[r].data = s_val[(r + mpisize - 1) % mpisize].data
         /\ s_recv[r].check = s_val[(r + mpisize - 1) % mpisize].check

C17_Witness ==
  /\ mpisize = MaxP /\ TypeParam = "double"
  /\ pc[0] = "s_check" /\ pc[1] = "s_check"
  /\ s_val[0] # s_val[1] /\ s_recv[0] = s_val[MaxP - 1]
  /\ s_recv[0] # DefaultElem

\* ------------------------------------ claims on blocking and termination
\* Rank r has passed the probe of its current recv call.
Probed(r) ==
  pc[r] \in {"sc_MPI_Get_count", "sc_MPI_Recv", "unpack_vector_prefix", "check"}

\* Rank s has issued its send of round k.
HasSent(s, k) ==
  \/ r_num_data[s] > k
  \/ r_num_data[s] = k /\ pc[s] \notin {"create", "send"}

\* C18: a recv call gets past its probe only with a message of its source
\* and tag that has been sent; as long as it waits, messages with another
\* tag or from another source do not let it pass, and the owned collection
\* stays what it was before the call.
C18_RecvBlocks ==
  \A r \in Ranks :
    LET from == (r + mpisize - 1) % mpisize
        k == r_num_data[r]
    IN  /\ Probed(r) =>
             /\ r_status[r].source = from /\ r_status[r].tag = RingTag
             /\ r_status[r].round = k
             /\ HasSent(from, k)
        /\ pc[r] \in {"recv", "sc_MPI_Probe", "sc_MPI_Get_count", "sc_MPI_Recv"} =>
             h_recv[r] = IF k = 1 THEN NULL ELSE Owned(create(from, k - 1))

C18_Witness ==
  \E r \in Ranks :
    LET from == (r + mpisize - 1) % mpisize
    IN  /\ pc[r] = "recv" /\ r_num_data[r] = 2 /\ ~aborted
        /\ ~HasMatch(chan[from][r], RingTag)
        /\ Len(chan[from][r]) >= 1
        /\ ~HasSent(from, 2)
        /\ h_recv[r] = Owned(create(from, 1))

\* Rank r is blocked in the sc_MPI_Send of its send call: the message of its
\* current round has not been received.
BlockedInSend(r) ==
  /\ pc[r] = "send_wait"
  /\ \E i \in 1..Len(chan[r][send_to(r)]) :
       chan[r][send_to(r)][i].round = r_num_data[r]

\* C19: in the ring exchange, where every rank sends before it receives, no
\* state has every rank blocked in its send, so that every rank can go on to
\* its recv and complete the round.
C19_NoSendDeadlock ==
  (mpi_enabled /\ ~aborted) => ~(\A r \in Ranks : BlockedInSend(r))

\* ------------------------------------------- claims on read-only calls
\* C20: buffer_size, pack_vector_prefix and send leave the owned collection
\* of the handler as it was constructed (present, same length, same
\* elements), however often and in whatever order they are called, so that
\* a later buffer_size returns, a later pack writes and a later send
\* transmits what the collection as constructed gives.
C20_ReadOnly ==
  b_stage # "idle" =>
    /\ b_obj = b_obj0
    /\ \A k \in 1..2 :
         /\ b_obj[k].m_data.owns
         /\ Len(b_obj[k].m_data.vec) = Len(b_obj0[k].m_data.vec)
    /\ (b_call.op = "buffer_size" /\ b_stage \in {"decode1", "decode2", "done"}) =>
         b_call.value
           = << IntPackSize + Len(b_obj0[b_call.k].m_data.vec)
                              * single_size(b_obj0[b_call.k].T, DefaultElem) >>
    /\ (b_call.op = "send" /\ b_stage \in {"decode1", "decode2", "done"}) =>
         /\ Len(b_call.value) = SizeOf(b_call.k)
         /\ IntAt(b_call.value, 0) = Len(b_obj0[b_call.k].m_data.vec)
         /\ \A i \in 1..Len(b_obj0[b_call.k].m_data.vec) :
              ElemAt(b_obj0[b_call.k].T, b_call.value,
                     IntPackSize
                     + (i - 1) * single_size(b_obj0[b_call.k].T, DefaultElem))
                = b_obj0[b_call.k].m_data.vec[i]

C20_Witness ==
  /\ b_stage = "done" /\ b_call.op = "send" /\ b_call.k = 1
  /\ b_obj = b_obj0 /\ Len(b_obj[1].m_data.vec) = MaxLen
  /\ Len(b_call.value) = SizeOf(1)
  /\ IntAt(b_call.value, 0) = MaxLen

\* ------------------------------------------------ claims on int widths
\* The call returned the mathematical value count prefix size + n * element
\* size (stated without computing a value no int holds).
IsExactSize(call, n) ==
  LET single == single_size(TypeParam, DefaultElem)
  IN  /\ call.exit = "ok"
      /\ call.value >= IntPackSize
      /\ (call.value - IntPackSize) % single = 0
      /\ (call.value - IntPackSize) \div single = n

\* C21: for a vector of n elements, 0 <= n <= 2^31 - 1, buffer_size returns
\* the mathematical value count prefix size + n * element size, and so does
\* t8_buffer_size (n); the count pack_vector_prefix writes is n; none of them
\* is negative or reduced modulo 2^32.
C21_NoWraparound ==
  /\ (w_call.op = "buffer_size" /\ FitsInt(w_len)) =>
       IsExactSize(w_call, int_of_size_t(w_len))
  /\ w_call.op = "t8_buffer_size" => IsExactSize(w_call, w_call.arg)
  /\ (w_call.op = "pack_vector_prefix" /\ FitsInt(w_len)) =>
       /\ w_call.value >= 0
       /\ size_t(w_call.value) = w_len

\* The sizes are exact up to the largest buffer size an int holds, where
\* they agree with the sizes summed item by item; the count is exact for
\* every size an int holds.
WidthInRange ==
  LET n == int_of_size_t(w_len)
  IN  /\ (w_call.op = "buffer_size" /\ FitsInt(w_len)
            /\ n <= MaxExact(TypeParam)) =>
           /\ IsExactSize(w_call, n)
           /\ n <= MaxLen =>
                w_call.value
                  = buffer_size(TypeParam, Owned([i \in 1..n |-> DefaultElem]))
      /\ (w_call.op = "t8_buffer_size" /\ w_call.arg <= MaxExact(TypeParam)) =>
           /\ IsExactSize(w_call, w_call.arg)
           /\ w_call.arg <= MaxLen =>
                w_call.value = t8_buffer_size(TypeParam, w_call.arg)
      /\ (w_call.op = "pack_vector_prefix" /\ FitsInt(w_len)) =>
           /\ w_call.value >= 0
           /\ size_t(w_call.value) = w_len

\* ------------------------------------------------ claims on decode safety
\* The count prefix of the buffer asks for more elements than the bytes that
\* follow it hold.
CountExceedsBuffer ==
  /\ WireCount >= 0
  /\ IntPackSize + WireCount * single_size(TypeParam, DefaultElem) > Len(c_buf)

C23_CountBeforeMutation ==
  c_stage = "unpacked" =>
    /\ WireCount < 0 =>
         /\ c_exit \in {"abort_assert", "length_error"}
         /\ c_dst.owns = c_prev.owns
         /\ Len(c_dst.vec) = Len(c_prev.vec)
         /\ c_dst.vec = c_prev.vec
    /\ c_dst # c_prev => WireCount >= 0

C23_Witness ==
  /\ c_stage = "unpacked" /\ c_op = "unpack_vector_prefix"
  /\ WireCount < 0 /\ c_exit = "abort_assert"
  /\ c_prev.owns /\ Len(c_prev.vec) = MaxLen /\ c_dst = c_prev

\* ------------------------------------------- claims on frames and ownership
\* The collection the handler owns, nullptr included.
OwnedNow == Deref(o_heap, o_h)

\* The collection the handler owned before the last call.
OwnedBefore == Deref(o_pre.heap, o_pre.h)

\* C24: in a build without T8_ENABLE_MPI, a recv call leaves the owned
\* collection, the caller's outcount and the caller's status as they were
\* before the call, and a send call leaves the owned collection as it was,
\* however many such calls are made: the handler owns what its construction
\* and its unpack calls gave it.
C24_UnavailableLeavesState ==
  (o_stage # "idle" /\ ~mpi_enabled) =>
    /\ o_call.op = "recv" =>
         /\ OwnedNow = OwnedBefore /\ o_heap = o_pre.heap /\ o_h = o_pre.h
         /\ o_outcount = o_pre.outcount
         /\ o_status = o_pre.status
         /\ o_ret = NoMpiStatus
    /\ o_call.op = "send" =>
         /\ OwnedNow = OwnedBefore /\ o_heap = o_pre.heap /\ o_h = o_pre.h
         /\ o_ret = NoMpiStatus
    /\ OwnedNow = o_expect

C24_Witness ==
  /\ ~mpi_enabled /\ o_call.op = "recv" /\ o_infos = MaxInfos
  /\ o_h # 0 /\ Len(o_heap[o_h]) = MaxLen
  /\ o_outcount = MaxLen + 1 /\ o_status # NoStatus
  /\ o_ret = NoMpiStatus

\* C25: a handler constructed from the caller's vector owns a copy of it:
\* an unpack or recv call on the handler leaves the caller's vector as it
\* was, a change of the caller's vector leaves the handler's collection and
\* what it packs and sends as they were, and get_data assigns the handler's
\* current collection to its argument, which later calls on the handler do
\* not change, or leaves the argument as it was if the handler owns no data.
C25_ConstructionCopies ==
  o_stage # "idle" =>
    /\ OwnedNow = o_expect
    /\ o_call.op \in {"unpack_vector_prefix", "recv"} =>
         /\ o_heap[1] = o_pre.heap[1]
         /\ o_out = o_pre.out
    /\ o_call.op = "caller_change" =>
         /\ OwnedNow = OwnedBefore
         /\ o_out = o_pre.out
    /\ (o_call.op \in {"pack_vector_prefix", "send"} /\ o_call.value # << >>) =>
         /\ o_call.value = send_pack(TypeParam, o_expect).buffer
         /\ o_heap = o_pre.heap
    /\ o_call.op = "get_data" =>
         /\ o_out = IF o_h # 0 THEN o_expect.vec ELSE o_pre.out
         /\ o_heap = o_pre.heap /\ o_h = o_pre.h

C25_Witness ==
  /\ o_call.op = "caller_change" /\ o_h # 0
  /\ o_heap[o_h] = create(1, MaxLen) /\ o_heap[1] = create(3, 1)
  /\ o_pre.heap[1] = << >>
  /\ o_out = create(1, MaxLen)

\* ------------------------------------- claims on the two handler variants
\* C26: for a collection c, t8_data_pack_vector (c, c.size (), buffer) and
\* pack_vector_prefix on a handler owning c, from cursor 0, both into a
\* buffer of the size their variant computes, produce the same bytes, and
\* the unpack of either variant takes the bytes of either and yields c and
\* its count.
C26_VariantsAgree ==
  (c_src.owns /\ c_stage \in {"packed", "unpacked"} /\ ~c_tampered) =>
    LET n == Len(c_src.vec)
        size == buffer_size(TypeParam, c_src)
        poly == pack_vector_prefix(TypeParam, c_src, ZeroBuffer(size), size, 0)
        stat == t8_data_pack_vector(TypeParam, c_src.vec, n,
                  ZeroBuffer(t8_buffer_size(TypeParam, n)), debug_build)
    IN  /\ poly.exit = "ok" /\ stat.exit = "ok"
        /\ poly.buffer = stat.buffer
        /\ c_packop = "pack_vector_prefix" => c_buf = poly.buffer
        /\ c_packop = "t8_data_pack_vector" => c_buf = stat.buffer
        /\ c_buf = poly.buffer /\ c_buf = stat.buffer
        /\ c_stage = "unpacked" =>
             /\ c_exit = "ok" /\ c_outcount = n
             /\ c_dst.owns /\ c_dst.vec = c_src.vec

C26_Witness ==
  /\ c_stage = "unpacked" /\ ~c_tampered /\ c_exit = "ok"
  /\ c_packop = "pack_vector_prefix" /\ c_op = "t8_data_unpack_vector"
  /\ c_src.owns /\ Len(c_src.vec) = MaxLen /\ c_src.vec[1] # c_src.vec[MaxLen]
  /\ c_dst.vec = c_src.vec /\ c_prev # c_dst

\* ------------------------------------------------ claims on the vertex to tree lookup

VttAborts == { "abort", "assert" }

\* Once the state is COMMITTED it stays COMMITTED and vertex_to_tree stays
\* what it was when the state became COMMITTED.
CommitStays ==
  v_committed.set =>
    /\ v_state = "COMMITTED"
    /\ v_vertex_to_tree = v_committed.map

\* add_vertex_to_tree called in the COMMITTED state ends in an abort.
AddAfterCommitAborts ==
  (/\ v_stage # "idle"
   /\ v_call.op = "add_vertex_to_tree"
   /\ v_call.state = "COMMITTED") => v_exit \in VttAborts

\* get_tree_list_of_vertex for an id that is not in vertex_to_tree aborts.
UnknownVertexAborts ==
  (/\ v_stage # "idle"
   /\ v_call.op = "get_tree_list_of_vertex"
   /\ v_call.arg \notin DOMAIN v_vertex_to_tree) => v_exit \in VttAborts

\* get_tree_list_of_vertex returns a list only in the COMMITTED state.
AnsweredOnlyCommitted ==
  (/\ v_stage # "idle"
   /\ v_call.op = "get_tree_list_of_vertex"
   /\ v_exit = "ok") => v_call.state = "COMMITTED"

\* C27: commit is final: the state never returns to INITIALIZED, every later
\* add_vertex_to_tree aborts and vertex_to_tree is never changed again;
\* get_tree_list_of_vertex is answered only in the COMMITTED state and aborts
\* for a vertex id that was never added.
C27_CommitIsFinal ==
  /\ CommitStays
  /\ AddAfterCommitAborts
  /\ UnknownVertexAborts
  /\ AnsweredOnlyCommitted

\* A list is answered although commit was never called.
AnsweredBeforeCommit ==
  /\ v_stage = "run"
  /\ v_call.op = "get_tree_list_of_vertex"
  /\ v_call.state = "INITIALIZED"
  /\ v_exit = "ok"
  /\ v_call.value # << >>

\* The pairs of a list ascend by tree id and, for equal tree ids, by vertex.
Ascending(list) ==
  \A i, j \in 1..Len(list) :
    i < j => \/ list[i].first < list[j].first
             \/ /\ list[i].first = list[j].first
                /\ list[i].second <= list[j].second

\* C28: in the COMMITTED state every list of vertex_to_tree is non-empty and
\* ascends by tree id and then by vertex index, whether the state was
\* reached by commit or by the constructor from a tree-to-vertex list.
C28_CommittedListsSorted ==
  (v_stage # "idle" /\ v_state = "COMMITTED") =>
    \A id \in DOMAIN v_vertex_to_tree :
      /\ Len(v_vertex_to_tree[id]) > 0
      /\ Ascending(v_vertex_to_tree[id])

C28_Witness ==
  /\ v_stage = "run"
  /\ v_call.op = "commit" /\ v_call.state = "INITIALIZED" /\ v_exit = "ok"
  /\ v_state = "COMMITTED"
  /\ \E id \in DOMAIN v_vertex_to_tree :
       /\ Len(v_vertex_to_tree[id]) = MaxAdds
       /\ \E i, j \in 1..MaxAdds :
            /\ i < j
            /\ v_vertex_to_tree[id][i].first = v_vertex_to_tree[id][j].first
            /\ v_vertex_to_tree[id][i].second < v_vertex_to_tree[id][j].second

\* The COMMITTED state reached by the constructor, with a list of two pairs.
ConstructedCommitted ==
  /\ v_stage = "run"
  /\ v_call.op = "constructor"
  /\ v_state = "COMMITTED"
  /\ \E id \in DOMAIN v_vertex_to_tree : Len(v_vertex_to_tree[id]) >= 2


====
